---- MODULE Spec2Model ----
(***************************************************************************)
(* Type inference of delisp-core: the constraint generator `infer`, the    *)
(* module driver `inferModule` / `inferType`, the alias cycle check, and   *)
(* the constraint solver, substitution and unifier they call.              *)
(*                                                                         *)
(* infer.ts, types.ts and convert-type.ts are translated from the source.  *)
(* infer-solver.ts, unify.ts, type-utils.ts, type-generate.ts and the      *)
(* inline primitives are imported by infer.ts but are not part of the      *)
(* source tree at hand; they are written from sections 4.1-4.7 of the      *)
(* specification and from the paper infer.ts names (Heeren, Hage,          *)
(* Swierstra: Generalizing Hindley-Milner Type Inference Algorithms).      *)
(***************************************************************************)
EXTENDS Integers, Sequences, FiniteSets, TLC

(***************************************************************************)
(* Bounds of the model                                                     *)
(***************************************************************************)

\* Number of row rewrites one unification may chain before the model
\* records it as not terminating.
MaxRewrites == 6

(***************************************************************************)
(* types.ts: the algebra of monotypes                                      *)
(***************************************************************************)

tConstant(name) == [tag |-> "constant", name |-> name]

tcArrow == tConstant("->")
tcVector == tConstant("vector")
tcRecord == tConstant("record")
tcVariant == tConstant("variant")
tcEffect == tConstant("effect")
tVoid == tConstant("void")
tBoolean == tConstant("boolean")
tNumber == tConstant("number")
tString == tConstant("string")

tVar(name, userSpecified) ==
  [tag |-> "type-variable", name |-> name, userSpecified |-> userSpecified]

tUserDefined(name) == [tag |-> "constant", name |-> name]

\* args is the sequence of operand types
tApp(op, args) == [tag |-> "application", op |-> op, args |-> args]

tVector(t) == tApp(tcVector, <<t>>)

\* infer.ts calls tFn(args, effect, out): the effect sits before the result
tFn(args, effect, out) == tApp(tcArrow, args \o <<effect, out>>)

emptyRow == [tag |-> "empty-row"]

tRowExtension(label, labelType, row) ==
  [tag |-> "row-extension", label |-> label, labelType |-> labelType,
   extends |-> row]

\* fields.reduceRight(... tRowExtension(label, type, row), extending)
RECURSIVE tRow(_, _)
tRow(fields, extending) ==
  IF fields = <<>> THEN extending
  ELSE tRowExtension(Head(fields).label, Head(fields).type,
                     tRow(Tail(fields), extending))

tRecord(fields, extending) == tApp(tcRecord, <<tRow(fields, extending)>>)

tVariant(fields) == tApp(tcVariant, <<tRow(fields, emptyRow)>>)

\* tEffect(labels): the effect type with the given labels and a closed tail
tEffect(labels) ==
  tApp(tcEffect,
       <<tRow([i \in DOMAIN labels |-> [label |-> labels[i], type |-> tVoid]],
              emptyRow)>>)

IsRow(t) == t.tag \in {"empty-row", "row-extension"}

(***************************************************************************)
(* type-generate.ts: the fresh-variable source.  The counter is threaded   *)
(* explicitly: every operator that generates variables takes the counter n *)
(* and returns the next one.                                               *)
(***************************************************************************)

VarName(prefix, n) == prefix \o ToString(n)

generateUniqueTVar(n) == tVar(VarName("t", n), FALSE)

(***************************************************************************)
(* type-utils.ts: free variables and substitutions                         *)
(***************************************************************************)

RECURSIVE listTypeVariables(_)
listTypeVariables(t) ==
  CASE t.tag = "type-variable" -> {t.name}
    [] t.tag = "application" ->
         listTypeVariables(t.op) \cup
         UNION {listTypeVariables(t.args[i]) : i \in DOMAIN t.args}
    [] t.tag = "row-extension" ->
         listTypeVariables(t.labelType) \cup listTypeVariables(t.extends)
    [] OTHER -> {}

\* The constants of t, left to right
RECURSIVE listTypeConstants(_)
RECURSIVE listTypeConstantsMany(_)
listTypeConstants(t) ==
  CASE t.tag = "constant" -> <<t.name>>
    [] t.tag = "application" -> listTypeConstantsMany(<<t.op>> \o t.args)
    [] t.tag = "row-extension" ->
         listTypeConstantsMany(<<t.labelType, t.extends>>)
    [] OTHER -> <<>>
listTypeConstantsMany(ts) ==
  IF ts = <<>> THEN <<>>
  ELSE listTypeConstants(Head(ts)) \o listTypeConstantsMany(Tail(ts))

EmptySubstitution == [v \in {} |-> emptyRow]

\* s extended with name |-> t; the new binding wins
Extend(s, name, t) == (name :> t) @@ s

\* apply rewrites a variable of the domain by its image and goes on in the
\* image (a fixpoint per call).  In a substitution without cycles a chain of
\* such rewrites is no longer than the domain, which is the depth allowed.
RECURSIVE applyDepth(_, _, _)
applyDepth(t, s, d) ==
  CASE t.tag = "type-variable" ->
         IF t.name \in DOMAIN s /\ d > 0
         THEN applyDepth(s[t.name], s, d - 1)
         ELSE t
    [] t.tag = "application" ->
         tApp(applyDepth(t.op, s, d),
              [i \in DOMAIN t.args |-> applyDepth(t.args[i], s, d)])
    [] t.tag = "row-extension" ->
         tRowExtension(t.label, applyDepth(t.labelType, s, d),
                       applyDepth(t.extends, s, d))
    [] OTHER -> t

\* apply that rewrites a variable by its image and stops there
applySubstitutionOnce(t, s) == applyDepth(t, s, 1)

applySubstitution(t, s) == applyDepth(t, s, Cardinality(DOMAIN s))

(***************************************************************************)
(* unify.ts: unification of constants, applications, variables and rows.   *)
(* A result is [tag, substitution, n]; tag "unify-success" or the error.   *)
(***************************************************************************)

UnifySuccess(s, n) == [tag |-> "unify-success", substitution |-> s, n |-> n]
UnifyError(kind, s, n) == [tag |-> kind, substitution |-> s, n |-> n]

\* The occurs check: does variable v occur in t
occurCheck(v, t) == v.name \in listTypeVariables(t)

\* unifyVariable without the occurs check
unifyVariableNoOccursCheck(v, t, ctx, n) ==
  IF t.tag = "type-variable" /\ t.name = v.name THEN UnifySuccess(ctx, n)
  ELSE IF v.userSpecified
  THEN IF t.tag = "type-variable" /\ ~t.userSpecified
       THEN UnifySuccess(Extend(ctx, t.name, v), n)
       ELSE UnifyError("annotation-too-general", ctx, n)
  ELSE UnifySuccess(Extend(ctx, v.name, t), n)

\* Rule 2: a variable against a type (both already substituted)
unifyVariable(v, t, ctx, n) ==
  IF t.tag = "type-variable" /\ t.name = v.name THEN UnifySuccess(ctx, n)
  ELSE IF v.userSpecified
  THEN IF t.tag = "type-variable" /\ ~t.userSpecified
       THEN UnifySuccess(Extend(ctx, t.name, v), n)
       ELSE UnifyError("annotation-too-general", ctx, n)
  ELSE IF occurCheck(v, t) THEN UnifyError("occurs-check", ctx, n)
  ELSE UnifySuccess(Extend(ctx, v.name, t), n)

\* Bring `label` to the head of `row`: the type of the field and the rest
\* of the row.  Only a variable tail introduces variables (a fresh field
\* type and a fresh tail); an empty tail has no such label.
RECURSIVE rewriteRowForLabel(_, _, _, _)
rewriteRowForLabel(row, label, ctx, n) ==
  CASE row.tag = "empty-row" ->
         [tag |-> "row-label-missing", substitution |-> ctx, n |-> n]
    [] row.tag = "type-variable" ->
         IF row.userSpecified
         THEN [tag |-> "annotation-too-general", substitution |-> ctx, n |-> n]
         ELSE LET gamma == generateUniqueTVar(n)
                  beta == generateUniqueTVar(n + 1)
              IN  [tag |-> "unify-success",
                   substitution |->
                     Extend(ctx, row.name, tRowExtension(label, gamma, beta)),
                   n |-> n + 2, labelType |-> gamma, rest |-> beta]
    [] row.tag = "row-extension" ->
         IF row.label = label
         THEN [tag |-> "unify-success", substitution |-> ctx, n |-> n,
               labelType |-> row.labelType, rest |-> row.extends]
         ELSE LET r == rewriteRowForLabel(row.extends, label, ctx, n)
              IN  IF r.tag # "unify-success" THEN r
                  ELSE [r EXCEPT !.rest =
                          tRowExtension(row.label, row.labelType, r.rest)]
    [] OTHER -> [tag |-> "row-kind-mismatch", substitution |-> ctx, n |-> n]

RECURSIVE unify(_, _, _, _, _)
RECURSIVE unifyArray(_, _, _, _, _)

\* Row against row, the labels taken in the order they are written
unifyRowInOrder(row1, row2, ctx, n, fuel) ==
  IF row1.label = row2.label
  THEN unifyArray(<<row1.labelType, row1.extends>>,
                  <<row2.labelType, row2.extends>>, ctx, n, fuel)
  ELSE UnifyError("row-label-missing", ctx, n)

\* Row against row (both row extensions, already substituted)
unifyRow(row1, row2, ctx, n, fuel) ==
  IF row1.label = row2.label
  THEN unifyArray(<<row1.labelType, row1.extends>>,
                  <<row2.labelType, row2.extends>>, ctx, n, fuel)
  ELSE LET r == rewriteRowForLabel(row2, row1.label, ctx, n)
       IN  IF r.tag # "unify-success" THEN UnifyError(r.tag, ctx, n)
           ELSE unifyArray(<<row1.labelType, row1.extends>>,
                           <<r.labelType, r.rest>>,
                           r.substitution, r.n, fuel - 1)

unify(t1, t2, ctx, n, fuel) ==
  LET a == applySubstitution(t1, ctx)
      b == applySubstitution(t2, ctx)
  IN  IF fuel = 0 THEN UnifyError("no-termination", ctx, n)
      ELSE
      CASE a.tag = "type-variable" -> unifyVariable(a, b, ctx, n)
        [] a.tag # "type-variable" /\ b.tag = "type-variable" ->
             unifyVariable(b, a, ctx, n)
        [] a.tag = "constant" /\ b.tag = "constant" ->
             IF a.name = b.name THEN UnifySuccess(ctx, n)
             ELSE UnifyError("constant-mismatch", ctx, n)
        [] a.tag = "application" /\ b.tag = "application" ->
             LET r == unify(a.op, b.op, ctx, n, fuel)
             IN  IF r.tag # "unify-success" THEN r
                 ELSE IF Len(a.args) # Len(b.args)
                 THEN UnifyError("arity-mismatch", ctx, n)
                 ELSE unifyArray(a.args, b.args, r.substitution, r.n, fuel)
        [] a.tag = "empty-row" /\ b.tag = "empty-row" -> UnifySuccess(ctx, n)
        [] a.tag = "row-extension" /\ b.tag = "row-extension" ->
             unifyRow(a, b, ctx, n, fuel)
        [] a.tag = "row-extension" /\ b.tag = "empty-row" ->
             UnifyError("row-label-missing", ctx, n)
        [] a.tag = "empty-row" /\ b.tag = "row-extension" ->
             UnifyError("row-label-missing", ctx, n)
        [] IsRow(a) /\ b.tag \in {"constant", "application"} ->
             UnifyError("row-kind-mismatch", ctx, n)
        [] a.tag \in {"constant", "application"} /\ IsRow(b) ->
             UnifyError("row-kind-mismatch", ctx, n)
        [] OTHER -> UnifyError("constant-mismatch", ctx, n)

\* unifyArray that unifies the first elements and leaves the others
unifyArrayHeadOnly(ts1, ts2, ctx, n, fuel) ==
  IF ts1 = <<>> THEN UnifySuccess(ctx, n)
  ELSE unify(Head(ts1), Head(ts2), ctx, n, fuel)

\* Element-wise, left to right, threading the substitution
unifyArray(ts1, ts2, ctx, n, fuel) ==
  IF ts1 = <<>> THEN UnifySuccess(ctx, n)
  ELSE LET r == unify(Head(ts1), Head(ts2), ctx, n, fuel)
       IN  IF r.tag # "unify-success" THEN r
           ELSE unifyArray(Tail(ts1), Tail(ts2), r.substitution, r.n, fuel)

(***************************************************************************)
(* convert-type.ts: the reader's conversion of a type annotation.  An      *)
(* S-expression is [type: "symbol", name], [type: "list", elements],       *)
(* [type: "vector", elements] or [type: "map", fields, tail].  A result is *)
(* [ok, type, n].                                                          *)
(***************************************************************************)

NoTail == [type |-> "none"]

convertSymbol(expr, n) ==
  CASE expr.name = "boolean" -> [ok |-> TRUE, type |-> tBoolean, n |-> n]
    [] expr.name = "number" -> [ok |-> TRUE, type |-> tNumber, n |-> n]
    [] expr.name = "string" -> [ok |-> TRUE, type |-> tString, n |-> n]
    [] expr.name = "void" -> [ok |-> TRUE, type |-> tVoid, n |-> n]
    [] expr.name = "_" ->
         [ok |-> TRUE, type |-> tVar(VarName("__t", n), FALSE), n |-> n + 1]
    [] OTHER -> [ok |-> TRUE, type |-> tVar(expr.name, FALSE), n |-> n]

RECURSIVE convert(_, _)
RECURSIVE convertMany(_, _)

\* args.map(convert): [ok, types, n]
convertMany(exprs, n) ==
  IF exprs = <<>> THEN [ok |-> TRUE, types |-> <<>>, n |-> n]
  ELSE LET h == convert(Head(exprs), n)
           r == convertMany(Tail(exprs), h.n)
       IN  [ok |-> h.ok /\ r.ok, types |-> <<h.type>> \o r.types, n |-> r.n]

convertList(expr, n) ==
  LET op == Head(expr.elements)
      args == Tail(expr.elements)
      r == convertMany(args, n)
  IN  IF op.type # "symbol" \/ op.name # "->" \/ Len(args) < 1
      THEN [ok |-> FALSE, type |-> tVoid, n |-> n]
      ELSE [ok |-> r.ok, type |-> tApp(tConstant(op.name), r.types), n |-> r.n]

convertVector(expr, n) ==
  IF Len(expr.elements) # 1 THEN [ok |-> FALSE, type |-> tVoid, n |-> n]
  ELSE LET r == convert(expr.elements[1], n)
       IN  [ok |-> r.ok, type |-> tVector(r.type), n |-> r.n]

convertMap(expr, n) ==
  LET fs == convertMany([i \in DOMAIN expr.fields |-> expr.fields[i].value], n)
      tl == IF expr.tail = NoTail
            THEN [ok |-> TRUE, type |-> emptyRow, n |-> fs.n]
            ELSE convert(expr.tail, fs.n)
  IN  [ok |-> fs.ok /\ tl.ok,
       type |-> tRecord([i \in DOMAIN expr.fields |->
                           [label |-> expr.fields[i].label,
                            type |-> fs.types[i]]],
                        tl.type),
       n |-> tl.n]

convert(expr, n) ==
  CASE expr.type = "list" -> convertList(expr, n)
    [] expr.type = "symbol" -> convertSymbol(expr, n)
    [] expr.type = "vector" -> convertVector(expr, n)
    [] expr.type = "map" -> convertMap(expr, n)
    [] OTHER -> [ok |-> FALSE, type |-> tVoid, n |-> n]

(***************************************************************************)
(* Annotations with wildcards (section 4.7): instantiate() turns every     *)
(* wildcard (a name starting with "_") into a fresh variable, one per      *)
(* name, and every other variable into a user-specified one.               *)
(***************************************************************************)

\* The names the model's annotations use that start with "_"
WildcardNames ==
  {"_a", "_b", "_c", "_r"} \cup {VarName("__t", k) : k \in 1..9}

isWildcardTypeVarName(name) == name \in WildcardNames

\* The variables of t, left to right, each once
RECURSIVE variableSeq(_, _)
RECURSIVE variableSeqMany(_, _)
variableSeq(t, acc) ==
  CASE t.tag = "type-variable" ->
         IF \E i \in DOMAIN acc : acc[i] = t.name THEN acc
         ELSE Append(acc, t.name)
    [] t.tag = "application" -> variableSeqMany(<<t.op>> \o t.args, acc)
    [] t.tag = "row-extension" ->
         variableSeqMany(<<t.labelType, t.extends>>, acc)
    [] OTHER -> acc
variableSeqMany(ts, acc) ==
  IF ts = <<>> THEN acc
  ELSE variableSeqMany(Tail(ts), variableSeq(Head(ts), acc))

\* The substitution of instantiate(): names is the sequence still to bind
RECURSIVE wildcardSubstitution(_, _, _)
wildcardSubstitution(names, s, n) ==
  IF names = <<>> THEN [substitution |-> s, n |-> n]
  ELSE IF isWildcardTypeVarName(Head(names))
  THEN wildcardSubstitution(Tail(names),
                            Extend(s, Head(names), generateUniqueTVar(n)),
                            n + 1)
  ELSE wildcardSubstitution(Tail(names), s, n)

\* Replace each variable by its image in s, once (no fixpoint), and mark
\* the variables that are left as user-specified
RECURSIVE renameVariables(_, _)
renameVariables(t, s) ==
  CASE t.tag = "type-variable" ->
         IF t.name \in DOMAIN s THEN s[t.name] ELSE tVar(t.name, TRUE)
    [] t.tag = "application" ->
         tApp(renameVariables(t.op, s),
              [i \in DOMAIN t.args |-> renameVariables(t.args[i], s)])
    [] t.tag = "row-extension" ->
         tRowExtension(t.label, renameVariables(t.labelType, s),
                       renameVariables(t.extends, s))
    [] OTHER -> t

instantiateWildcards(t, n) ==
  LET w == wildcardSubstitution(variableSeq(t, <<>>), EmptySubstitution, n)
  IN  [type |-> renameVariables(t, w.substitution), n |-> w.n]

(***************************************************************************)
(* infer.ts: alias expansion                                               *)
(***************************************************************************)

\* An expansion that leaves the definition as it is written
expandTypeAliasesOnce(t, env) ==
  CASE t.tag = "constant" ->
         IF t.name \in DOMAIN env THEN env[t.name] ELSE t
    [] t.tag = "application" ->
         tApp(t.op, [i \in DOMAIN t.args |->
                       IF t.args[i].tag = "constant"
                          /\ t.args[i].name \in DOMAIN env
                       THEN env[t.args[i].name] ELSE t.args[i]])
    [] OTHER -> t

\* expandTypeAliases: a constant that names an alias of env is replaced by
\* its definition, expanded in turn.  d bounds the nesting of expansions;
\* in a table without cycles it is at most the size of the table.
RECURSIVE expandDepth(_, _, _)
expandDepth(t, env, d) ==
  CASE t.tag = "constant" ->
         IF t.name \in DOMAIN env /\ d > 0
         THEN expandDepth(env[t.name], env, d - 1)
         ELSE t
    [] t.tag = "application" ->
         tApp(expandDepth(t.op, env, d),
              [i \in DOMAIN t.args |-> expandDepth(t.args[i], env, d)])
    [] t.tag = "row-extension" ->
         tRowExtension(t.label, expandDepth(t.labelType, env, d),
                       expandDepth(t.extends, env, d))
    [] OTHER -> t

expandTypeAliases(t, env) == expandDepth(t, env, Cardinality(DOMAIN env))

(***************************************************************************)
(* infer-solver.ts: the constraint language.  A constraint carries the     *)
(* {type, effect} of its expression node.                                  *)
(***************************************************************************)

constEqual(e, t) == [tag |-> "equal-constraint", expr |-> e, t |-> t]

constEffect(e, t) == [tag |-> "equal-effect-constraint", expr |-> e, t |-> t]

constImplicitInstance(e, monovars, t) ==
  [tag |-> "implicit-instance-constraint", expr |-> e,
   monovars |-> monovars, t |-> t]

\* t is a TypeSchema: [tag: "type", tvars, mono]
constExplicitInstance(e, t) ==
  [tag |-> "explicit-instance-constraint", expr |-> e, t |-> t]

(***************************************************************************)
(* infer.ts: the constraint generator.  An expression is a record with the *)
(* node's tag and its children; a typed node is [node, info: {type,        *)
(* effect}] (of a variable reference) or [info] (of any other node, whose  *)
(* children the constraints do not read).  An InferResult is               *)
(* [result, constraints, assumptions, n], n the counter after the call.    *)
(* monovars is the set of names of the monomorphic type variables.         *)
(***************************************************************************)

NoExpr == [tag |-> "none"]

Typed(type, effect) == [info |-> [type |-> type, effect |-> effect]]

InferResult(result, constraints, assumptions, n) ==
  [result |-> result, constraints |-> constraints,
   assumptions |-> assumptions, n |-> n]

Last(s) == s[Len(s)]

\* array.map(f)
Map(s, f(_)) == [i \in DOMAIN s |-> f(s[i])]

\* names.indexOf(name), 0 when absent
RECURSIVE IndexOf(_, _)
IndexOf(names, name) ==
  IF names = <<>> THEN 0
  ELSE IF Head(names) = name THEN 1
  ELSE LET i == IndexOf(Tail(names), name) IN IF i = 0 THEN 0 ELSE i + 1

Includes(names, name) == IndexOf(names, name) # 0

\* flatMap(f, xs) of sequences
RECURSIVE Flatten(_)
Flatten(ss) == IF ss = <<>> THEN <<>> ELSE Head(ss) \o Flatten(Tail(ss))

RECURSIVE infer(_, _, _, _)
RECURSIVE inferMany(_, _, _, _)
RECURSIVE inferCases(_, _, _, _)

inferMany(exprs, monovars, internalTypes, n) ==
  IF exprs = <<>> THEN InferResult(<<>>, <<>>, <<>>, n)
  ELSE LET h == infer(Head(exprs), monovars, internalTypes, n)
           r == inferMany(Tail(exprs), monovars, internalTypes, h.n)
       IN  InferResult(<<h.result>> \o r.result,
                       h.constraints \o r.constraints,
                       h.assumptions \o r.assumptions, r.n)

inferUnknown(expr, monovars, internalTypes, n) ==
  InferResult(Typed(generateUniqueTVar(n), generateUniqueTVar(n + 1)),
              <<>>, <<>>, n + 2)

inferNumber(expr, monovars, internalTypes, n) ==
  InferResult(Typed(tNumber, generateUniqueTVar(n)), <<>>, <<>>, n + 1)

inferString(expr, monovars, internalTypes, n) ==
  InferResult(Typed(tString, generateUniqueTVar(n)), <<>>, <<>>, n + 1)

inferVector(expr, monovars, internalTypes, n) ==
  LET inferredValues == inferMany(expr.values, monovars, internalTypes, n)
      t == generateUniqueTVar(inferredValues.n)
      effect == generateUniqueTVar(inferredValues.n + 1)
  IN  InferResult(
        Typed(tVector(t), effect),
        inferredValues.constraints
          \o Map(inferredValues.result, LAMBDA e : constEqual(e, t))
          \o Map(inferredValues.result, LAMBDA e : constEffect(e, effect)),
        inferredValues.assumptions,
        inferredValues.n + 2)

\* A tail that may be any record
RecordTailConstraintAnyRecord(tailResult, labels, freshTypes, tailRowType) ==
  constEqual(tailResult, tRecord(<<>>, tailRowType))

\* The tail of a record literal must be a record with (at least) the listed
\* labels, each of a fresh type, over the row variable of the result
RecordTailConstraint(tailResult, labels, freshTypes, tailRowType) ==
  constEqual(tailResult,
             tRecord([i \in DOMAIN labels |->
                        [label |-> labels[i], type |-> freshTypes[i]]],
                     tailRowType))

\* A record literal typed as the row of its tail alone
RecordResultTypeOfTail(labels, values, tail) == tApp(tcRecord, <<tail>>)

\* The type of a record literal: the listed labels, each with the type of
\* its value, over the row of the tail
RecordResultType(labels, values, tail) ==
  tRecord([i \in DOMAIN labels |->
             [label |-> labels[i], type |-> values[i].info.type]],
          tail)

inferRecord(expr, monovars, internalTypes, n) ==
  LET inferred == inferMany(Map(expr.fields, LAMBDA f : f.value),
                            monovars, internalTypes, n)
      hasTail == expr.extends # NoExpr
      tailInferred == IF hasTail
                      THEN infer(expr.extends, monovars, internalTypes,
                                 inferred.n)
                      ELSE InferResult(NoExpr, <<>>, <<>>, inferred.n)
      tailRowType == generateUniqueTVar(tailInferred.n)
      effect == generateUniqueTVar(tailInferred.n + 1)
      n2 == tailInferred.n + 2
      labels == Map(expr.fields, LAMBDA f : f.label)
      freshTypes == [i \in DOMAIN labels |-> generateUniqueTVar(n2 + i - 1)]
  IN  InferResult(
        Typed(RecordResultType(labels, inferred.result,
                               IF hasTail THEN tailRowType ELSE emptyRow),
              effect),
        inferred.constraints
          \o tailInferred.constraints
          \o (IF hasTail
              THEN <<RecordTailConstraint(tailInferred.result, labels,
                                          freshTypes, tailRowType)>>
              ELSE <<>>)
          \o Map(inferred.result, LAMBDA e : constEffect(e, effect))
          \o (IF hasTail THEN <<constEffect(tailInferred.result, effect)>>
              ELSE <<>>),
        inferred.assumptions \o tailInferred.assumptions,
        IF hasTail THEN n2 + Len(labels) ELSE n2)

inferVariableReference(expr, monovars, internalTypes, n) ==
  LET typedVar == [node |-> expr,
                   info |-> [type |-> generateUniqueTVar(n),
                             effect |-> generateUniqueTVar(n + 1)]]
  IN  InferResult(typedVar, <<>>, <<typedVar>>, n + 2)

inferConditional(expr, monovars, internalTypes, n) ==
  LET condition == infer(expr.condition, monovars, internalTypes, n)
      consequent == infer(expr.consequent, monovars, internalTypes,
                          condition.n)
      alternative == infer(expr.alternative, monovars, internalTypes,
                           consequent.n)
      t == generateUniqueTVar(alternative.n)
      effect == generateUniqueTVar(alternative.n + 1)
  IN  InferResult(
        Typed(t, effect),
        condition.constraints \o consequent.constraints
          \o alternative.constraints
          \o <<constEqual(condition.result, tBoolean),
               constEqual(consequent.result, t),
               constEqual(alternative.result, t),
               constEffect(condition.result, effect),
               constEffect(consequent.result, effect),
               constEffect(alternative.result, effect)>>,
        condition.assumptions \o consequent.assumptions
          \o alternative.assumptions,
        alternative.n + 2)

\* A use of a parameter taken for an instance of the type of the parameter
FunctionArgConstraintInstance(v, argtype) ==
  constImplicitInstance(v, {}, argtype)

\* The constraint of one use v of the parameter fnargs[varIndex]
FunctionArgConstraint(v, argtype) == constEqual(v, argtype)

\* A function that infers its body with the monovars of outside only
FunctionBodyMonovarsOuter(monovars, argtypes) == monovars

\* [...monovars, ...argtypes.map(v => v.name)]: the monovars of the body
FunctionBodyMonovars(monovars, argtypes) ==
  monovars \cup {argtypes[i].name : i \in DOMAIN argtypes}

inferFunction(expr, monovars, internalTypes, n) ==
  LET fnargs == expr.lambdaList
      argtypes == [i \in DOMAIN fnargs |-> generateUniqueTVar(n + i - 1)]
      body == inferMany(expr.body,
                        FunctionBodyMonovars(monovars, argtypes),
                        internalTypes, n + Len(fnargs))
      bodyEffect == generateUniqueTVar(body.n)
      used == SelectSeq(body.assumptions,
                        LAMBDA v : Includes(fnargs, v.node.name))
      newConstraints ==
        Map(used, LAMBDA v :
              FunctionArgConstraint(v, argtypes[IndexOf(fnargs, v.node.name)]))
        \o Map(body.result, LAMBDA form : constEffect(form, bodyEffect))
  IN  InferResult(
        Typed(tFn(argtypes, bodyEffect, Last(body.result).info.type),
              generateUniqueTVar(body.n + 1)),
        body.constraints \o newConstraints,
        SelectSeq(body.assumptions,
                  LAMBDA v : ~Includes(fnargs, v.node.name)),
        body.n + 2)

inferFunctionCall(expr, monovars, internalTypes, n) ==
  LET ifn == infer(expr.fn, monovars, internalTypes, n)
      iargs == inferMany(expr.args, monovars, internalTypes, ifn.n)
      tTo == generateUniqueTVar(iargs.n)
      effect == generateUniqueTVar(iargs.n + 1)
      tfn == tFn(Map(iargs.result, LAMBDA a : a.info.type), effect, tTo)
  IN  InferResult(
        Typed(tTo, effect),
        <<constEqual(ifn.result, tfn)>>
          \o ifn.constraints \o iargs.constraints
          \o <<constEffect(ifn.result, effect)>>
          \o Map(iargs.result, LAMBDA a : constEffect(a, effect)),
        ifn.assumptions \o iargs.assumptions,
        iargs.n + 2)

\* A let whose uses are equated with the type of the value
LetUseConstraintEqual(v, monovars, t) == constEqual(v, t)

\* The constraint of one use v, in the body, of a variable the let binds to
\* a value of type t
LetUseConstraint(v, monovars, t) == constImplicitInstance(v, monovars, t)

\* A let that also keeps back the uses of its names in the values
LetAssumptionsRecursive(body, bindings, vars) ==
  SelectSeq(body \o bindings, LAMBDA v : ~Includes(vars, v.node.name))

\* The assumptions a let returns: those of the body that name no variable
\* of the let, and all those of the values of the bindings
LetAssumptions(body, bindings, vars) ==
  SelectSeq(body, LAMBDA v : ~Includes(vars, v.node.name)) \o bindings

\* A let that leaves the effect of the value of a binding as it is
LetValueEffectUnconstrained(b) == constEffect(b, b.info.effect)

\* The values of the bindings of a let are free of effects
LetValueEffectConstraint(b) == constEffect(b, tEffect(<<>>))

inferLetBindings(expr, monovars, internalTypes, n) ==
  LET vars == Map(expr.bindings, LAMBDA b : b.variable)
      toBeBound(vname) == Includes(vars, vname)
      bindingsInfo == inferMany(Map(expr.bindings, LAMBDA b : b.value),
                                monovars, internalTypes, n)
      bodyInference == inferMany(expr.body, monovars, internalTypes,
                                 bindingsInfo.n)
      effect == generateUniqueTVar(bodyInference.n)
  IN  InferResult(
        Typed(Last(bodyInference.result).info.type, effect),
        bodyInference.constraints
          \o bindingsInfo.constraints
          \o Map(SelectSeq(bodyInference.assumptions,
                           LAMBDA v : toBeBound(v.node.name)),
                 LAMBDA v :
                   LetUseConstraint(
                     v, monovars,
                     bindingsInfo.result[IndexOf(vars, v.node.name)].info.type))
          \o Map(bindingsInfo.result,
                 LAMBDA b : LetValueEffectConstraint(b))
          \o Map(bodyInference.result, LAMBDA form : constEffect(form, effect)),
        LetAssumptions(bodyInference.assumptions, bindingsInfo.assumptions,
                       vars),
        bodyInference.n + 1)

\* An annotation that constrains nothing
AnnotationConstraintUnchecked(inferredResult, t) ==
  constEqual(inferredResult, inferredResult.info.type)

\* The constraint of an annotation: the value has the annotated type
AnnotationConstraint(inferredResult, t) == constEqual(inferredResult, t)

inferTypeAnnotation(expr, monovars, internalTypes, n) ==
  LET inferred == infer(expr.value, monovars, internalTypes, n)
      inst == instantiateWildcards(expr.typeWithWildcards, inferred.n)
      t == expandTypeAliases(inst.type, internalTypes)
  IN  InferResult(
        Typed(t, inferred.result.info.effect),
        inferred.constraints \o <<AnnotationConstraint(inferred.result, t)>>,
        inferred.assumptions,
        inst.n)

inferDoBlock(expr, monovars, internalTypes, n) ==
  LET body == inferMany(expr.body, monovars, internalTypes, n)
      returning == infer(expr.returning, monovars, internalTypes, body.n)
      effect == generateUniqueTVar(returning.n)
  IN  InferResult(
        Typed(returning.result.info.type, effect),
        body.constraints \o returning.constraints
          \o Map(body.result, LAMBDA form : constEffect(form, effect))
          \o <<constEffect(returning.result, effect)>>,
        body.assumptions \o returning.assumptions,
        returning.n + 1)

\* cases.map(c => inferMany(c.body, [...monovars, c.variable.name], ...)):
\* the result is [infers, n], infers[i] the InferResult of case i
inferCases(cases, monovars, internalTypes, n) ==
  IF cases = <<>> THEN [infers |-> <<>>, n |-> n]
  ELSE LET c == Head(cases)
           h == inferMany(c.body, monovars \cup {c.variable},
                          internalTypes, n)
           r == inferCases(Tail(cases), monovars, internalTypes, h.n)
       IN  [infers |-> <<h>> \o r.infers, n |-> r.n]

inferMatch(expr, monovars, internalTypes, n) ==
  LET value == infer(expr.value, monovars, internalTypes, n)
      cases == inferCases(expr.cases, monovars, internalTypes, value.n)
      t == generateUniqueTVar(cases.n)
      effect == generateUniqueTVar(cases.n + 1)
      labels == Map(expr.cases, LAMBDA c : c.label)
      variantTypes == [i \in DOMAIN expr.cases |->
                         [label |-> expr.cases[i].label,
                          type |-> generateUniqueTVar(cases.n + 1 + i)]]
      caseConstraints(i) ==
        LET c == expr.cases[i]
            ci == cases.infers[i]
        IN  <<constEqual(Last(ci.result), t)>>
            \o Map(SelectSeq(ci.assumptions,
                             LAMBDA a : a.node.name = c.variable),
                   LAMBDA a :
                     constEqual(a, variantTypes[IndexOf(labels, c.label)].type))
  IN  InferResult(
        Typed(t, effect),
        value.constraints
          \o Flatten([i \in DOMAIN cases.infers |-> cases.infers[i].constraints])
          \o <<constEqual(value.result, tVariant(variantTypes))>>
          \o Flatten([i \in DOMAIN expr.cases |-> caseConstraints(i)]),
        value.assumptions
          \o Flatten([i \in DOMAIN expr.cases |->
                        SelectSeq(cases.infers[i].assumptions,
                                  LAMBDA a : a.node.name # expr.cases[i].variable)]),
        cases.n + 2 + Len(expr.cases))

infer(expr, monovars, internalTypes, n) ==
  CASE expr.tag = "unknown" -> inferUnknown(expr, monovars, internalTypes, n)
    [] expr.tag = "number" -> inferNumber(expr, monovars, internalTypes, n)
    [] expr.tag = "string" -> inferString(expr, monovars, internalTypes, n)
    [] expr.tag = "vector" -> inferVector(expr, monovars, internalTypes, n)
    [] expr.tag = "record" -> inferRecord(expr, monovars, internalTypes, n)
    [] expr.tag = "variable-reference" ->
         inferVariableReference(expr, monovars, internalTypes, n)
    [] expr.tag = "conditional" ->
         inferConditional(expr, monovars, internalTypes, n)
    [] expr.tag = "function" -> inferFunction(expr, monovars, internalTypes, n)
    [] expr.tag = "function-call" ->
         inferFunctionCall(expr, monovars, internalTypes, n)
    [] expr.tag = "let-bindings" ->
         inferLetBindings(expr, monovars, internalTypes, n)
    [] expr.tag = "type-annotation" ->
         inferTypeAnnotation(expr, monovars, internalTypes, n)
    [] expr.tag = "do-block" -> inferDoBlock(expr, monovars, internalTypes, n)
    [] expr.tag = "match" -> inferMatch(expr, monovars, internalTypes, n)

(***************************************************************************)
(* infer.ts: the exceptions infer raises.  A function and a let read       *)
(* last(body)!.info of their body, which is undefined when the body is     *)
(* empty; a match throws an InvariantViolation for a case whose body has   *)
(* no returning form, and for a case whose label is not among the variant  *)
(* types built from the cases.  raises(expr) is the first exception in the *)
(* order infer runs, NoRaise when infer returns.                           *)
(***************************************************************************)

NoRaise == "none"

MissingReturningForm == "Missing returning form!"

UnknownInvariantCase == "Unknown invariant case"

UndefinedInfo == "TypeError: Cannot read property 'info' of undefined"

RECURSIVE FirstRaise(_)
FirstRaise(rs) ==
  IF rs = <<>> THEN NoRaise
  ELSE IF Head(rs) # NoRaise THEN Head(rs)
  ELSE FirstRaise(Tail(rs))

\* variantTypes.find(v => v.label === c.label) === undefined
variantMissing(labels, c) == ~Includes(labels, c.label)

\* the flatMap over the cases that builds the constraints of a match
raisesCase(labels, c) ==
  IF c.body = <<>> THEN MissingReturningForm
  ELSE IF variantMissing(labels, c) THEN UnknownInvariantCase
  ELSE NoRaise

RECURSIVE raises(_)

raisesMany(exprs) == FirstRaise([i \in DOMAIN exprs |-> raises(exprs[i])])

raises(expr) ==
  CASE expr.tag \in {"unknown", "number", "string", "variable-reference"} ->
         NoRaise
    [] expr.tag = "vector" -> raisesMany(expr.values)
    [] expr.tag = "record" ->
         FirstRaise(<<raisesMany([i \in DOMAIN expr.fields |->
                                    expr.fields[i].value]),
                      IF expr.extends = NoExpr THEN NoRaise
                      ELSE raises(expr.extends)>>)
    [] expr.tag = "conditional" ->
         raisesMany(<<expr.condition, expr.consequent, expr.alternative>>)
    [] expr.tag = "function" ->
         FirstRaise(<<raisesMany(expr.body),
                      IF expr.body = <<>> THEN UndefinedInfo ELSE NoRaise>>)
    [] expr.tag = "function-call" ->
         raisesMany(<<expr.fn>> \o expr.args)
    [] expr.tag = "let-bindings" ->
         FirstRaise(<<raisesMany([i \in DOMAIN expr.bindings |->
                                    expr.bindings[i].value]),
                      raisesMany(expr.body),
                      IF expr.body = <<>> THEN UndefinedInfo ELSE NoRaise>>)
    [] expr.tag = "type-annotation" -> raises(expr.value)
    [] expr.tag = "do-block" ->
         raisesMany(expr.body \o <<expr.returning>>)
    [] expr.tag = "match" ->
         FirstRaise(<<raises(expr.value),
                      raisesMany(Flatten([i \in DOMAIN expr.cases |->
                                            expr.cases[i].body])),
                      FirstRaise([i \in DOMAIN expr.cases |->
                                    raisesCase([j \in DOMAIN expr.cases |->
                                                  expr.cases[j].label],
                                               expr.cases[i])])>>)

(***************************************************************************)
(* infer-solver.ts: schemes, active variables and the solvable test        *)
(***************************************************************************)

TypeSchema(tvars, mono) == [tag |-> "type", tvars |-> tvars, mono |-> mono]

Range(s) == {s[i] : i \in DOMAIN s}

\* generalize(t, monovars): quantify the free variables of t that are not
\* monomorphic
generalize(t, monovars) ==
  TypeSchema(SelectSeq(variableSeq(t, <<>>), LAMBDA v : v \notin monovars), t)

\* instantiate(scheme): each quantified variable becomes a fresh one
instantiate(scheme, n) ==
  LET s == [v \in Range(scheme.tvars) |->
              generateUniqueTVar(n + IndexOf(scheme.tvars, v) - 1)]
  IN  [type |-> applyDepth(scheme.mono, s, 1), n |-> n + Len(scheme.tvars)]

applySubstitutionToExpr(e, s) ==
  [e EXCEPT !.info = [type |-> applySubstitution(e.info.type, s),
                      effect |-> applySubstitution(e.info.effect, s)]]

\* The substitution without the variables a scheme quantifies
Without(s, names) == [v \in DOMAIN s \ names |-> s[v]]

\* A substitution that leaves the monomorphic set of an ImplicitInstance as
\* it was
applySubstitutionToConstraintTypes(c, s) ==
  IF c.tag = "explicit-instance-constraint"
  THEN [c EXCEPT !.expr = applySubstitutionToExpr(c.expr, s),
                 !.t = TypeSchema(c.t.tvars,
                                  applySubstitution(
                                    c.t.mono, Without(s, Range(c.t.tvars))))]
  ELSE [c EXCEPT !.expr = applySubstitutionToExpr(c.expr, s),
                 !.t = applySubstitution(c.t, s)]

applySubstitutionToConstraint(c, s) ==
  CASE c.tag \in {"equal-constraint", "equal-effect-constraint"} ->
         [c EXCEPT !.expr = applySubstitutionToExpr(c.expr, s),
                   !.t = applySubstitution(c.t, s)]
    [] c.tag = "implicit-instance-constraint" ->
         [c EXCEPT !.expr = applySubstitutionToExpr(c.expr, s),
                   !.monovars =
                     UNION {listTypeVariables(applySubstitution(tVar(v, FALSE), s))
                              : v \in c.monovars},
                   !.t = applySubstitution(c.t, s)]
    [] c.tag = "explicit-instance-constraint" ->
         [c EXCEPT !.expr = applySubstitutionToExpr(c.expr, s),
                   !.t = TypeSchema(c.t.tvars,
                                    applySubstitution(
                                      c.t.mono, Without(s, Range(c.t.tvars))))]

\* The active variables of one constraint (Heeren, Hage, Swierstra)
activevarsOf(c) ==
  CASE c.tag = "equal-constraint" ->
         listTypeVariables(c.expr.info.type) \cup listTypeVariables(c.t)
    [] c.tag = "equal-effect-constraint" ->
         listTypeVariables(c.expr.info.effect) \cup listTypeVariables(c.t)
    [] c.tag = "implicit-instance-constraint" ->
         listTypeVariables(c.expr.info.type) \cup
         (listTypeVariables(c.t) \cap c.monovars)
    [] c.tag = "explicit-instance-constraint" ->
         listTypeVariables(c.expr.info.type) \cup
         (listTypeVariables(c.t.mono) \ Range(c.t.tvars))

activevars(constraints) ==
  UNION {activevarsOf(constraints[i]) : i \in DOMAIN constraints}

\* constraints without the one at index i
Others(constraints, i) ==
  SubSeq(constraints, 1, i - 1) \o SubSeq(constraints, i + 1, Len(constraints))

\* A scheduler that takes every constraint for solvable
solvableAlways(constraints, i) == TRUE

\* Is the constraint at index i solvable among constraints
solvable(constraints, i) ==
  LET c == constraints[i]
  IN  IF c.tag = "implicit-instance-constraint"
      THEN (listTypeVariables(c.t) \ c.monovars)
             \cap activevars(Others(constraints, i)) = {}
      ELSE TRUE

\* constraints.find(solvable): the index of the first solvable constraint,
\* 0 when there is none
FirstSolvable(constraints) ==
  IF \E i \in DOMAIN constraints : solvable(constraints, i)
  THEN CHOOSE i \in DOMAIN constraints :
         /\ solvable(constraints, i)
         /\ \A j \in 1..(i - 1) : ~solvable(constraints, j)
  ELSE 0

(***************************************************************************)
(* infer.ts: the environment and the module driver                         *)
(***************************************************************************)

Null == [tag |-> "null"]

\* The inline primitives the inputs of the model use
InlinePrimitives ==
  ("true" :> TypeSchema(<<>>, tBoolean))
  @@ ("+" :> TypeSchema(<<"e">>,
                        tFn(<<tNumber, tNumber>>, tVar("e", FALSE), tNumber)))
  @@ (":x" :> TypeSchema(<<"a", "r", "e">>,
                         tFn(<<tRecord(<<[label |-> ":x",
                                          type |-> tVar("a", FALSE)]>>,
                                       tVar("r", FALSE))>>,
                             tVar("e", FALSE), tVar("a", FALSE))))

isInlinePrimitive(name) == name \in DOMAIN InlinePrimitives

findInlinePrimitive(name) == [type |-> InlinePrimitives[name]]

\* A lookup that gives a name without binding the scheme of void
lookupVariableTypeOrVoid(varName, env) ==
  IF varName \in DOMAIN env.variables THEN env.variables[varName]
  ELSE IF isInlinePrimitive(varName) THEN findInlinePrimitive(varName).type
  ELSE TypeSchema(<<>>, tVoid)

lookupVariableType(varName, env) ==
  IF varName \in DOMAIN env.variables THEN env.variables[varName]
  ELSE IF isInlinePrimitive(varName) THEN findInlinePrimitive(varName).type
  ELSE Null

\* The uses of an external binding equated with the body of its scheme
assumptionsToConstraintsShared(assumptions, env) ==
  Map(SelectSeq(assumptions,
                LAMBDA a : lookupVariableType(a.node.name, env) # Null),
      LAMBDA a : constEqual(a, lookupVariableType(a.node.name, env).mono))

\* maybeMap: the assumptions without a scheme give no constraint
assumptionsToConstraints(assumptions, env) ==
  Map(SelectSeq(assumptions,
                LAMBDA a : lookupVariableType(a.node.name, env) # Null),
      LAMBDA a : constExplicitInstance(a, lookupVariableType(a.node.name, env)))

\* difference(xs, ys): the elements of xs that are not in ys
difference(xs, ys) == SelectSeq(xs, LAMBDA v : v \notin Range(ys))

\* groupAssumptions with the unknowns what the module does not define
groupAssumptionsNotInternal(assumptions, internalEnv, externalEnv) ==
  LET internals == SelectSeq(assumptions,
                             LAMBDA v : v.node.name \in DOMAIN internalEnv.variables)
      externals == SelectSeq(assumptions,
                             LAMBDA v : lookupVariableType(v.node.name, externalEnv) # Null)
  IN  [internals |-> internals,
       externals |-> externals,
       unknowns |-> difference(assumptions, internals)]

groupAssumptions(assumptions, internalEnv, externalEnv) ==
  LET internals == SelectSeq(assumptions,
                             LAMBDA v : v.node.name \in DOMAIN internalEnv.variables)
      externals == SelectSeq(assumptions,
                             LAMBDA v : lookupVariableType(v.node.name, externalEnv) # Null)
  IN  [internals |-> internals,
       externals |-> externals,
       unknowns |-> difference(assumptions, internals \o externals)]

\* allTypeAliases.find(x => x.node.alias.name === name): its index, 0 if none
RECURSIVE FindAlias(_, _)
FindAlias(allTypeAliases, name) ==
  IF allTypeAliases = <<>> THEN 0
  ELSE IF Head(allTypeAliases).alias = name THEN 1
  ELSE LET i == FindAlias(Tail(allTypeAliases), name)
       IN  IF i = 0 THEN 0 ELSE i + 1

NoCycle == [tag |-> "ok"]

\* The error visit throws for the cycle it found
CycleError(allTypeAliases, cycle) ==
  IF Len(cycle) = 1
  THEN [tag |-> "error",
        message |-> "Recursive type aliases are not allowed.",
        cycle |-> <<>>]
  ELSE [tag |-> "error",
        message |-> "Cicular dependency in type aliases found",
        cycle |-> Map(cycle, LAMBDA i : allTypeAliases[i].alias)]

\* visit(typeAlias, path) of checkCircularTypes; aliases are named by their
\* index in allTypeAliases.  The result is NoCycle or the error thrown.
RECURSIVE visit(_, _, _)
RECURSIVE visitDeps(_, _, _)
visit(allTypeAliases, typeAlias, path) ==
  LET index == IndexOf(path, typeAlias)
  IN  IF index = 0
      THEN visitDeps(allTypeAliases,
                     Map(listTypeConstants(allTypeAliases[typeAlias].definition),
                         LAMBDA name : FindAlias(allTypeAliases, name)),
                     Append(path, typeAlias))
      ELSE CycleError(allTypeAliases,
                      Append(SubSeq(path, index, Len(path)), typeAlias))
\* .forEach(dep => { if (!dep) return; visit(dep, [...path, typeAlias]) })
visitDeps(allTypeAliases, deps, path) ==
  IF deps = <<>> THEN NoCycle
  ELSE IF Head(deps) = 0 THEN visitDeps(allTypeAliases, Tail(deps), path)
  ELSE LET r == visit(allTypeAliases, Head(deps), path)
       IN  IF r # NoCycle THEN r
           ELSE visitDeps(allTypeAliases, Tail(deps), path)

\* allTypeAliases.forEach(tAlias => visit(tAlias, [])) from index i on
RECURSIVE checkCircularTypesFrom(_, _)
checkCircularTypesFrom(allTypeAliases, i) ==
  IF i > Len(allTypeAliases) THEN NoCycle
  ELSE LET r == visit(allTypeAliases, i, <<>>)
       IN  IF r # NoCycle THEN r
           ELSE checkCircularTypesFrom(allTypeAliases, i + 1)

checkCircularTypes(allTypeAliases) == checkCircularTypesFrom(allTypeAliases, 1)

isTypeAlias(s) == s.tag = "type-alias"

isExpression(s) == s.tag \notin {"definition", "export", "type-alias"}

\* m.body.reduce(...): the aliases of the module, a later one of a name wins
RECURSIVE internalTypesOf(_, _)
internalTypesOf(body, env) ==
  IF body = <<>> THEN env
  ELSE internalTypesOf(Tail(body),
                       IF Head(body).tag = "type-alias"
                       THEN Extend(env, Head(body).alias, Head(body).definition)
                       ELSE env)

\* The result of a definition, from the InferResult r of its value
inferDefinition(syntax, r) ==
  InferResult([node |-> [tag |-> "definition", variable |-> syntax.variable],
               info |-> r.result.info],
              r.constraints, r.assumptions, r.n)

inferSyntax(syntax, internalTypes, n) ==
  IF isExpression(syntax) THEN infer(syntax, {}, internalTypes, n)
  ELSE IF syntax.tag = "definition"
  THEN inferDefinition(syntax, infer(syntax.value, {}, internalTypes, n))
  ELSE InferResult([node |-> [tag |-> syntax.tag]], <<>>, <<>>, n)

\* The exception inferSyntax raises: a definition infers its value, a type alias infers nothing
raisesSyntax(syntax) ==
  IF isExpression(syntax) THEN raises(syntax)
  ELSE IF syntax.tag = "definition" THEN raises(syntax.value)
  ELSE NoRaise

\* m.body.map(form => inferSyntax(form, internalTypes)): the InferResults
RECURSIVE inferBody(_, _, _)
inferBodyCons(h, r) == [infers |-> <<h>> \o r.infers, n |-> r.n]

inferBodyFrom(h, rest, internalTypes) ==
  inferBodyCons(h, inferBody(rest, internalTypes, h.n))

inferBody(body, internalTypes, n) ==
  IF body = <<>> THEN [infers |-> <<>>, n |-> n]
  ELSE inferBodyFrom(inferSyntax(Head(body), internalTypes, n), Tail(body),
                     internalTypes)

\* body.reduce(...): definition name |-> type of its value, a later wins
RECURSIVE internalVariablesOf(_, _)
internalVariablesOf(results, env) ==
  IF results = <<>> THEN env
  ELSE internalVariablesOf(
         Tail(results),
         IF "node" \in DOMAIN Head(results)
            /\ Head(results).node.tag = "definition"
         THEN Extend(env, Head(results).node.variable, Head(results).info.type)
         ELSE env)

\* The constraint of one use v of a definition of the module
InternalUseConstraint(v, t) == constImplicitInstance(v, {}, t)

\* The constraints inferModule hands to solve
moduleConstraints(bodyInferences, assumptions, internalEnv, externalEnv) ==
  Flatten(Map(bodyInferences, LAMBDA i : i.constraints))
    \o assumptionsToConstraints(assumptions.externals, externalEnv)
    \o Map(assumptions.internals,
           LAMBDA v : InternalUseConstraint(
                        v, internalEnv.variables[v.node.name]))

(***************************************************************************)
(* The programs the model runs inference on.  An annotation is read by     *)
(* `convert` with the fresh-variable counter at 1; inference starts with   *)
(* the counter the reader left.                                            *)
(***************************************************************************)

Num == [tag |-> "number"]
Str == [tag |-> "string"]
Unknown == [tag |-> "unknown"]
Ref(name) == [tag |-> "variable-reference", name |-> name]
Lam(args, body) == [tag |-> "function", lambdaList |-> args, body |-> body]
Call(fn, args) == [tag |-> "function-call", fn |-> fn, args |-> args]
Bind(variable, value) == [variable |-> variable, value |-> value]
LetE(bindings, body) ==
  [tag |-> "let-bindings", bindings |-> bindings, body |-> body]
IfE(c, t, e) ==
  [tag |-> "conditional", condition |-> c, consequent |-> t, alternative |-> e]
Vec(values) == [tag |-> "vector", values |-> values]
Field(label, value) == [label |-> label, value |-> value]
Rec(fields, tail) == [tag |-> "record", fields |-> fields, extends |-> tail]
Do(body, returning) ==
  [tag |-> "do-block", body |-> body, returning |-> returning]
Case(label, variable, body) ==
  [label |-> label, variable |-> variable, body |-> body]
MatchE(value, cases) == [tag |-> "match", value |-> value, cases |-> cases]
Define(variable, value) ==
  [tag |-> "definition", variable |-> variable, value |-> value]
Sym(name) == [type |-> "symbol", name |-> name]
SList(elements) == [type |-> "list", elements |-> elements]
SVec(elements) == [type |-> "vector", elements |-> elements]
SMap(fields, tail) == [type |-> "map", fields |-> fields, tail |-> tail]
Annotated(type, value) ==
  [tag |-> "type-annotation", typeWithWildcards |-> type, value |-> value]
The(sexpr, value) == Annotated(convert(sexpr, 1).type, value)
Alias(name, type) ==
  [tag |-> "type-alias", alias |-> name, definition |-> type]

\* The counter after the reader converted sexpr
After(sexpr) == convert(sexpr, 1).n

NoVariables == [v \in {} |-> Null]

EmptyEnv == [variables |-> NoVariables, types |-> NoVariables]

\* readType: the scheme of an external binding quantifies all its variables
readType(sexpr) ==
  generalize(convert(sexpr, 1).type, {})

Expression(expr, counter) ==
  [kind |-> "expression", expr |-> expr, env |-> EmptyEnv,
   internalTypes |-> NoVariables, counter |-> counter]

\* typeOf(str, externalEnv, internalEnv) of the tests
ExpressionIn(expr, env, internalTypes) ==
  [kind |-> "expression", expr |-> expr, env |-> env,
   internalTypes |-> internalTypes, counter |-> 1]

Module(body, env) ==
  [kind |-> "module", body |-> body, env |-> env, counter |-> 1]

\* The type tables of the alias tests: ID is number, Person a record
AliasTypes ==
  ("ID" :> tNumber)
  @@ ("Person" :> tRecord(<<[label |-> ":name", type |-> tString]>>, emptyRow))

\* An external environment that knows the types, and no variable
TypesEnv == [variables |-> NoVariables, types |-> AliasTypes]

Identity == Lam(<<"x">>, <<Ref("x")>>)

AnnRowKind ==
  SList(<<Sym("->"), SMap(<<Field(":x", Sym("number"))>>, Sym("_a")),
          Sym("_"), Sym("_a")>>)

AnnSameTail ==
  SList(<<Sym("->"), SMap(<<Field(":x", Sym("number"))>>, Sym("_r")),
          Sym("_"), SMap(<<Field(":y", Sym("number"))>>, Sym("_r"))>>)

\* An external environment with print, (-> string (effect console) void)
PrintEnv ==
  [variables |->
     ("print" :> generalize(tFn(<<tString>>, tEffect(<<"console">>), tVoid),
                            {})),
   types |-> NoVariables]

\* (-> _ _ __t1): the anonymous wildcards and a named one
AnnAnonNamed ==
  SList(<<Sym("->"), Sym("_"), Sym("_"), Sym("__t1")>>)

\* (-> _a _a _ _c)
AnnSharedNamed ==
  SList(<<Sym("->"), Sym("_a"), Sym("_a"), Sym("_"), Sym("_c")>>)

\* (-> _ _ _c _)
AnnAnonymous ==
  SList(<<Sym("->"), Sym("_"), Sym("_"), Sym("_c"), Sym("_")>>)

ConstEnv ==
  [variables |->
     ("const" :> readType(SList(<<Sym("->"), Sym("a"), Sym("_"),
                                  SList(<<Sym("->"), Sym("b"), Sym("_"),
                                          Sym("a")>>)>>))),
   types |-> NoVariables]

PlusEnv ==
  [variables |->
     ("+" :> readType(SList(<<Sym("->"), Sym("number"), Sym("number"),
                              Sym("_"), Sym("number")>>))),
   types |-> NoVariables]

Inputs ==
  << \* 1: (let {id (lambda (x) x)} (id id))
     Expression(LetE(<<Bind("id", Identity)>>,
                     <<Call(Ref("id"), <<Ref("id")>>)>>), 1),
     \* 2: (lambda (id) (id id))
     Expression(Lam(<<"id">>, <<Call(Ref("id"), <<Ref("id")>>)>>), 1),
     \* 3: (lambda (f) ((f "foo") (f 0)))
     Expression(Lam(<<"f">>, <<Call(Call(Ref("f"), <<Str>>),
                                    <<Call(Ref("f"), <<Num>>)>>)>>), 1),
     \* 4: (let {id (lambda (x) x)} (id "foo") (id 0))
     Expression(LetE(<<Bind("id", Identity)>>,
                     <<Call(Ref("id"), <<Str>>), Call(Ref("id"), <<Num>>)>>), 1),
     \* 5: {:y 2 | {:x 1}}
     Expression(Rec(<<Field(":y", Num)>>, Rec(<<Field(":x", Num)>>, NoExpr)), 1),
     \* 6: {:x "foo" | {:x 1}}
     Expression(Rec(<<Field(":x", Str)>>, Rec(<<Field(":x", Num)>>, NoExpr)), 1),
     \* 7: (the a 3)
     Expression(The(Sym("a"), Num), 1),
     \* 8: (the [a] [])
     Expression(The(SVec(<<Sym("a")>>), Vec(<<>>)), 1),
     \* 9: (the (-> a _ a) (the (-> string _ string) (lambda (x) x)))
     Expression(The(SList(<<Sym("->"), Sym("a"), Sym("_"), Sym("a")>>),
                    The(SList(<<Sym("->"), Sym("string"), Sym("_"),
                                Sym("string")>>), Identity)), 2),
     \* 10: (the (-> b _ a) (the (-> a _ a) (lambda (x) x)))
     Expression(The(SList(<<Sym("->"), Sym("b"), Sym("_"), Sym("a")>>),
                    The(SList(<<Sym("->"), Sym("a"), Sym("_"), Sym("a")>>),
                        Identity)), 2),
     \* 11: (the (-> {:x number | _a} _ _a) (lambda (r) 5))
     Expression(The(AnnRowKind, Lam(<<"r">>, <<Num>>)), After(AnnRowKind)),
     \* 12: (the (-> {:x number | _r} _ {:y number | _r}) (lambda (z) z))
     Expression(The(AnnSameTail, Identity), After(AnnSameTail)),
     \* 13: (if true {:x 1 :y "a"} {:y "b" :x 2})
     Expression(IfE(Ref("true"),
                    Rec(<<Field(":x", Num), Field(":y", Str)>>, NoExpr),
                    Rec(<<Field(":y", Str), Field(":x", Num)>>, NoExpr)), 1),
     \* 14: (lambda (r) (if true {:x 1 :y "a" | r} {:y "b" :x 2 | r}))
     Expression(Lam(<<"r">>,
                    <<IfE(Ref("true"),
                          Rec(<<Field(":x", Num), Field(":y", Str)>>, Ref("r")),
                          Rec(<<Field(":y", Str), Field(":x", Num)>>, Ref("r")))>>),
                1),
     \* 15: (:x {:x 5})
     Expression(Call(Ref(":x"), <<Rec(<<Field(":x", Num)>>, NoExpr)>>), 1),
     \* 16: (lambda (r v) {:x v | r})
     Expression(Lam(<<"r", "v">>, <<Rec(<<Field(":x", Ref("v"))>>, Ref("r"))>>), 1),
     \* 17: (if true 1 "x")
     Expression(IfE(Ref("true"), Num, Str), 1),
     \* 18: (lambda (f) (let {x (f)} x))
     Expression(Lam(<<"f">>, <<LetE(<<Bind("x", Call(Ref("f"), <<>>))>>,
                                    <<Ref("x")>>)>>), 1),
     \* 19: (match v ({:a x} x) ({:b y} 1)) with v unknown
     Expression(MatchE(Unknown, <<Case(":a", "x", <<Ref("x")>>),
                                  Case(":b", "y", <<Num>>)>>), 1),
     \* 20: (do [1 "a"] 2)
     Expression(Do(<<Vec(<<Num, Str>>)>>, Num), 1),
     \* 21: (define id (lambda (x) x)) (id id)
     Module(<<Define("id", Identity), Call(Ref("id"), <<Ref("id")>>)>>,
            EmptyEnv),
     \* 22: (define f (lambda (x) (g x))) (define g (lambda (y) (f y)))
     Module(<<Define("f", Lam(<<"x">>, <<Call(Ref("g"), <<Ref("x")>>)>>)),
              Define("g", Lam(<<"y">>, <<Call(Ref("f"), <<Ref("y")>>)>>))>>,
            EmptyEnv),
     \* 23: (define + "plus") (+ 1 2) u
     Module(<<Define("+", Str), Call(Ref("+"), <<Num, Num>>), Ref("u")>>,
            EmptyEnv),
     \* 24: (define const 1) const, with const also an external binding
     Module(<<Define("const", Num), Ref("const"), Ref("true")>>, ConstEnv),
     \* 25: (type A [A]) 1
     Module(<<Alias("A", tVector(tUserDefined("A"))), Num>>, EmptyEnv),
     \* 26: (type A [B]) (type B [A]) 1
     Module(<<Alias("A", tVector(tUserDefined("B"))),
              Alias("B", tVector(tUserDefined("A"))), Num>>, EmptyEnv),
     \* 27: (type A [B]) (type B number) (the A [1]) (the [ID] [])
     Module(<<Alias("A", tVector(tUserDefined("B"))), Alias("B", tNumber),
              Annotated(tUserDefined("A"), Vec(<<Num>>)),
              Annotated(tVector(tUserDefined("ID")), Vec(<<>>))>>, EmptyEnv),
     \* 28: (type C number) (type A [B]) (type B {:k C :l [A]}) 1
     Module(<<Alias("C", tNumber), Alias("A", tVector(tUserDefined("B"))),
              Alias("B", tRecord(<<[label |-> ":k", type |-> tUserDefined("C")],
                                   [label |-> ":l",
                                    type |-> tVector(tUserDefined("A"))]>>,
                                 emptyRow)),
              Num>>, EmptyEnv),
     \* 29: (define k 1) (+ k u) (const k), with + and const external
     Module(<<Define("k", Num), Call(Ref("+"), <<Ref("k"), Ref("u")>>),
              Call(Ref("const"), <<Ref("k")>>)>>,
            [ConstEnv EXCEPT !.variables = @ @@ PlusEnv.variables]),
     \* 30: (type A {:k B :l C}) (type B [C]) (type C number) (the A {:k [1] :l 2})
     Module(<<Alias("A", tRecord(<<[label |-> ":k", type |-> tUserDefined("B")],
                                   [label |-> ":l", type |-> tUserDefined("C")]>>,
                                 emptyRow)),
              Alias("B", tVector(tUserDefined("C"))), Alias("C", tNumber),
              Annotated(tUserDefined("A"),
                        Rec(<<Field(":k", Vec(<<Num>>)), Field(":l", Num)>>,
                            NoExpr))>>, EmptyEnv),
     \* 31: {:x 1 :y 2 | {:x 1}}
     Expression(Rec(<<Field(":x", Num), Field(":y", Num)>>,
                    Rec(<<Field(":x", Num)>>, NoExpr)), 1),
     \* 32: (the (-> a a) (the (-> string string) (lambda (x) x)))
     Expression(The(SList(<<Sym("->"), Sym("a"), Sym("a")>>),
                    The(SList(<<Sym("->"), Sym("string"), Sym("string")>>),
                        Identity)), 1),
     \* 33: (the ID 5), ID an internal alias
     ExpressionIn(Annotated(tUserDefined("ID"), Num), EmptyEnv, AliasTypes),
     \* 34: (if true (the ID 5) 3), ID only an external type
     ExpressionIn(IfE(Ref("true"), Annotated(tUserDefined("ID"), Num), Num),
                  TypesEnv, NoVariables),
     \* 35: (lambda (x) (the ID x)), ID only an external type
     ExpressionIn(Lam(<<"x">>, <<Annotated(tUserDefined("ID"), Ref("x"))>>),
                  TypesEnv, NoVariables),
     \* 36: (if true (the ID 5) 3), ID an internal alias
     ExpressionIn(IfE(Ref("true"), Annotated(tUserDefined("ID"), Num), Num),
                  EmptyEnv, AliasTypes),
     \* 37: (the Person {:name "david"}), Person an internal alias
     ExpressionIn(Annotated(tUserDefined("Person"),
                            Rec(<<Field(":name", Str)>>, NoExpr)),
                  EmptyEnv, AliasTypes),
     \* 38: (the Point 5), Point in no table
     ExpressionIn(Annotated(tUserDefined("Point"), Num), TypesEnv, AliasTypes),
     \* 39: (match v ({:a x})), the body of the case is empty
     Expression(MatchE(Unknown, <<Case(":a", "x", <<>>)>>), 1),
     \* 40: (lambda (x)), the body is empty
     Expression(Lam(<<"x">>, <<>>), 1),
     \* 41: (if true (let {x 1}) 2), the body of the let is empty
     Expression(IfE(Ref("true"), LetE(<<Bind("x", Num)>>, <<>>), Num), 1),
     \* 42: (define f (lambda (x) (match x ({:a y} y) ({:b z})))) 1
     Module(<<Define("f", Lam(<<"x">>,
                              <<MatchE(Ref("x"),
                                       <<Case(":a", "y", <<Ref("y")>>),
                                         Case(":b", "z", <<>>)>>)>>)),
              Num>>, EmptyEnv),
     \* 43: (the (-> _ _ __t1) (lambda (x) 42))
     Expression(The(AnnAnonNamed, Lam(<<"x">>, <<Num>>)), After(AnnAnonNamed)),
     \* 44: (lambda (f) ((the (-> _a _a _ _c) f) 42 "foo"))
     Expression(Lam(<<"f">>, <<Call(The(AnnSharedNamed, Ref("f")),
                                    <<Num, Str>>)>>),
                After(AnnSharedNamed)),
     \* 45: (lambda (f) ((the (-> _ _ _c _) f) 42 "foo"))
     Expression(Lam(<<"f">>, <<Call(The(AnnAnonymous, Ref("f")),
                                    <<Num, Str>>)>>),
                After(AnnAnonymous)),
     \* 46: (let {x (print "a")} x)
     ExpressionIn(LetE(<<Bind("x", Call(Ref("print"), <<Str>>))>>,
                       <<Ref("x")>>), PrintEnv, NoVariables),
     \* 47: (let {x 1} (print "a") x)
     ExpressionIn(LetE(<<Bind("x", Num)>>,
                       <<Call(Ref("print"), <<Str>>), Ref("x")>>),
                  PrintEnv, NoVariables),
     \* 48: (lambda (x) (let {y x} y))
     Expression(Lam(<<"x">>, <<LetE(<<Bind("y", Ref("x"))>>, <<Ref("y")>>)>>),
                1),
     \* 49: (lambda (f) (let {g f} (g 1) (g "a")))
     Expression(Lam(<<"f">>,
                    <<LetE(<<Bind("g", Ref("f"))>>,
                           <<Call(Ref("g"), <<Num>>),
                             Call(Ref("g"), <<Str>>)>>)>>), 1),
     \* 50: (+ ((const 5) "foo") ((const 5) 23))
     ExpressionIn(Call(Ref("+"),
                       <<Call(Call(Ref("const"), <<Num>>), <<Str>>),
                         Call(Call(Ref("const"), <<Num>>), <<Num>>)>>),
                  ConstEnv, NoVariables),
     \* 51: (let {+ 10} +)
     Expression(LetE(<<Bind("+", Num)>>, <<Ref("+")>>), 1),
     \* 52: (let {f (lambda (n) (f n))} f)
     Expression(LetE(<<Bind("f", Lam(<<"n">>,
                                     <<Call(Ref("f"), <<Ref("n")>>)>>))>>,
                     <<Ref("f")>>), 1),
     \* 53: (match v ({:a x} (let {y x} y))) with v unknown
     Expression(MatchE(Unknown,
                       <<Case(":a", "x",
                              <<LetE(<<Bind("y", Ref("x"))>>,
                                     <<Ref("y")>>)>>)>>), 1),
     \* 54: (match v ({:a x} (let {y x} (if y 1 y)))) with v unknown
     Expression(MatchE(Unknown,
                       <<Case(":a", "x",
                              <<LetE(<<Bind("y", Ref("x"))>>,
                                     <<IfE(Ref("y"), Num, Ref("y"))>>)>>)>>),
                1),
     \* 55: (type A number) (type A [A]) (the A 1)
     Module(<<Alias("A", tNumber), Alias("A", tVector(tUserDefined("A"))),
              Annotated(tUserDefined("A"), Num)>>, EmptyEnv),
     \* 56: (type A number) (type A string) (the A "a")
     Module(<<Alias("A", tNumber), Alias("A", tString),
              Annotated(tUserDefined("A"), Str)>>, EmptyEnv),
     \* 57: (let {f (lambda (n) (+ n (f n)))} f)
     Expression(LetE(<<Bind("f", Lam(<<"n">>,
                                     <<Call(Ref("+"),
                                            <<Ref("n"),
                                              Call(Ref("f"),
                                                   <<Ref("n")>>)>>)>>))>>,
                     <<Ref("f")>>), 1)
  >>

(***************************************************************************)
(* The state machine: one run of inferType or inferModule on an input      *)
(***************************************************************************)

VARIABLES
  input,        \* index in Inputs of the program
  pc,           \* "start", "solving", "done", "error", "no-termination",
                \* "expansion-diverges"
  constraints,  \* the pending constraints of solve
  solution,     \* the running substitution
  counter,      \* the fresh-variable counter
  typed,        \* the typed results: one per form
  groups,       \* inferModule: the groups of the assumptions
  error,        \* the error raised, "none" when none
  cycle,        \* the path of aliases the cycle check reports
  last          \* the solver's last step: the constraint chosen, the others

vars == <<input, pc, constraints, solution, counter, typed, groups, error,
          cycle, last>>

NoGroups ==
  [all |-> <<>>, internals |-> <<>>, externals |-> <<>>, unknowns |-> <<>>]

NoStep == [tag |-> "none"]

Init ==
  /\ input \in DOMAIN Inputs
  /\ pc = "start"
  /\ constraints = <<>>
  /\ solution = EmptySubstitution
  /\ counter = Inputs[input].counter
  /\ typed = <<>>
  /\ groups = NoGroups
  /\ error = "none"
  /\ cycle = <<>>
  /\ last = NoStep

\* The solver starts on the constraints cs of the forms typed
StartSolving(cs, forms, n, g) ==
  /\ constraints' = cs
  /\ typed' = forms
  /\ counter' = n
  /\ groups' = g
  /\ pc' = "solving"
  /\ UNCHANGED <<input, solution, error, cycle, last>>

\* inferType up to its call of solve, from the InferResult r of the expression
inferTypeFrom(r, env) ==
  StartSolving(r.constraints \o assumptionsToConstraints(r.assumptions, env),
               <<r.result>>, r.n, [NoGroups EXCEPT !.all = r.assumptions])

\* The exception the generator raises on the program, NoRaise when none
\* The expressions of the tree of expr, expr included
RECURSIVE subexpressions(_)
childrenOf(expr) ==
  CASE expr.tag = "vector" -> expr.values
    [] expr.tag = "record" ->
         [i \in DOMAIN expr.fields |-> expr.fields[i].value]
         \o (IF expr.extends = NoExpr THEN <<>> ELSE <<expr.extends>>)
    [] expr.tag = "conditional" ->
         <<expr.condition, expr.consequent, expr.alternative>>
    [] expr.tag = "function" -> expr.body
    [] expr.tag = "function-call" -> <<expr.fn>> \o expr.args
    [] expr.tag = "let-bindings" ->
         [i \in DOMAIN expr.bindings |-> expr.bindings[i].value] \o expr.body
    [] expr.tag = "type-annotation" -> <<expr.value>>
    [] expr.tag = "do-block" -> expr.body \o <<expr.returning>>
    [] expr.tag = "match" ->
         <<expr.value>>
         \o Flatten([i \in DOMAIN expr.cases |-> expr.cases[i].body])
    [] OTHER -> <<>>

subexpressions(expr) ==
  {expr} \cup UNION {subexpressions(childrenOf(expr)[i]) :
                       i \in DOMAIN childrenOf(expr)}

\* The expressions of the forms of a program
expressionsOf(program) ==
  IF program.kind = "expression" THEN subexpressions(program.expr)
  ELSE UNION {IF program.body[i].tag = "definition"
              THEN subexpressions(program.body[i].value)
              ELSE IF program.body[i].tag = "type-alias" THEN {}
              ELSE subexpressions(program.body[i]) :
                i \in DOMAIN program.body}

\* expandTypeAliases(t, env) returns: the replacements reach a type without
\* a constant of env.  A replacement nested deeper than the size of env
\* has met a name twice and goes on without end.
expandTypeAliasesReturns(t, env) ==
  \A c \in Range(listTypeConstants(expandTypeAliases(t, env))) :
    c \notin DOMAIN env

\* Some annotation of the program has an expansion that does not return
expansionDiverges(program, internalTypes) ==
  \E e \in expressionsOf(program) :
    /\ e.tag = "type-annotation"
    /\ ~expandTypeAliasesReturns(e.typeWithWildcards, internalTypes)

\* The alias table inference uses for a program
internalTypesFor(program) ==
  IF program.kind = "expression" THEN program.internalTypes
  ELSE internalTypesOf(program.body, NoVariables)

raisesBody(body) == FirstRaise([i \in DOMAIN body |-> raisesSyntax(body[i])])

generatorRaises(program) ==
  IF program.kind = "expression" THEN raises(program.expr)
  ELSE raisesBody(program.body)

\* inferType or inferModule when infer throws: the exception leaves the call
InferRaises ==
  /\ pc = "start"
  /\ Inputs[input].kind = "module" =>
       checkCircularTypes(SelectSeq(Inputs[input].body,
                                    LAMBDA f : isTypeAlias(f))) = NoCycle
  /\ generatorRaises(Inputs[input]) # NoRaise
  /\ pc' = "error"
  /\ error' = generatorRaises(Inputs[input])
  /\ UNCHANGED <<input, constraints, solution, counter, typed, groups, cycle,
                 last>>

InferType ==
  /\ pc = "start"
  /\ Inputs[input].kind = "expression"
  /\ generatorRaises(Inputs[input]) = NoRaise
  /\ ~expansionDiverges(Inputs[input], internalTypesFor(Inputs[input]))
  /\ inferTypeFrom(infer(Inputs[input].expr, {},
                         Inputs[input].internalTypes, counter),
                   Inputs[input].env)

\* inferModule when checkCircularTypes throws
InferModuleCycle ==
  /\ pc = "start"
  /\ Inputs[input].kind = "module"
  /\ LET r == checkCircularTypes(
                SelectSeq(Inputs[input].body, LAMBDA f : isTypeAlias(f)))
     IN  /\ r # NoCycle
         /\ error' = r.message
         /\ cycle' = r.cycle
  /\ pc' = "error"
  /\ UNCHANGED <<input, constraints, solution, counter, typed, groups, last>>

\* inferModule up to its call of solve
\* inferModule, from the assumptions of the body grouped
inferModuleGrouped(infers, n, body, internalEnv, externalEnv, all, assumptions) ==
  StartSolving(moduleConstraints(infers, assumptions, internalEnv, externalEnv),
               body, n,
               [all |-> all, internals |-> assumptions.internals,
                externals |-> assumptions.externals,
                unknowns |-> assumptions.unknowns])

inferModuleEnv(infers, n, body, internalEnv, externalEnv, all) ==
  inferModuleGrouped(infers, n, body, internalEnv, externalEnv, all,
                     groupAssumptions(all, internalEnv, externalEnv))

inferModuleBody(infers, n, body, internalTypes, externalEnv) ==
  inferModuleEnv(infers, n, body,
                 [variables |-> internalVariablesOf(body, NoVariables),
                  types |-> internalTypes],
                 externalEnv,
                 Flatten(Map(infers, LAMBDA i : i.assumptions)))

inferModuleFrom(bodyInferences, internalTypes, externalEnv) ==
  inferModuleBody(bodyInferences.infers, bodyInferences.n,
                  Map(bodyInferences.infers, LAMBDA i : i.result),
                  internalTypes, externalEnv)

inferModuleTypes(m, internalTypes) ==
  inferModuleFrom(inferBody(m.body, internalTypes, counter), internalTypes,
                  m.env)

InferModule ==
  /\ pc = "start"
  /\ Inputs[input].kind = "module"
  /\ checkCircularTypes(SelectSeq(Inputs[input].body,
                                  LAMBDA f : isTypeAlias(f))) = NoCycle
  /\ generatorRaises(Inputs[input]) = NoRaise
  /\ ~expansionDiverges(Inputs[input], internalTypesFor(Inputs[input]))
  /\ inferModuleTypes(Inputs[input],
                      internalTypesOf(Inputs[input].body, NoVariables))

\* inferType or inferModule when expandTypeAliases, called by infer on an
\* annotation, does not return
InferDiverges ==
  /\ pc = "start"
  /\ Inputs[input].kind = "module" =>
       checkCircularTypes(SelectSeq(Inputs[input].body,
                                    LAMBDA f : isTypeAlias(f))) = NoCycle
  /\ generatorRaises(Inputs[input]) = NoRaise
  /\ expansionDiverges(Inputs[input], internalTypesFor(Inputs[input]))
  /\ pc' = "expansion-diverges"
  /\ UNCHANGED <<input, constraints, solution, counter, typed, groups, error,
                 cycle, last>>

Chosen == FirstSolvable(constraints)

Step(i) == [tag |-> constraints[i].tag, constraint |-> constraints[i],
            others |-> Others(constraints, i)]

\* solveEq: unify in the running substitution; on success go on with the
\* rest, the substitution applied to it
\* A failed unification that leaves what it had bound in the substitution
solutionAfterFailurePartial(r, s) == r.substitution

\* The substitution after unify failed with r: the error aborts inference,
\* the running substitution is the one before the step
solutionAfterFailure(r, s) == s

SolveEq(a, b, i) ==
  LET r == unify(a, b, solution, counter, MaxRewrites)
  IN  /\ last' = Step(i)
      /\ IF r.tag = "unify-success"
         THEN /\ solution' = r.substitution
              /\ constraints' =
                   Map(Others(constraints, i),
                       LAMBDA c : applySubstitutionToConstraint(c, r.substitution))
              /\ counter' = r.n
              /\ UNCHANGED <<pc, error>>
         ELSE /\ pc' = IF r.tag = "no-termination" THEN "no-termination"
                       ELSE "error"
              /\ error' = IF r.tag = "no-termination" THEN "none" ELSE r.tag
              /\ solution' = solutionAfterFailure(r, solution)
              /\ UNCHANGED <<constraints, counter>>
      /\ UNCHANGED <<input, typed, groups, cycle>>

SolveEqual ==
  /\ pc = "solving"
  /\ Chosen # 0
  /\ constraints[Chosen].tag = "equal-constraint"
  /\ SolveEq(constraints[Chosen].expr.info.type, constraints[Chosen].t, Chosen)

SolveEffect ==
  /\ pc = "solving"
  /\ Chosen # 0
  /\ constraints[Chosen].tag = "equal-effect-constraint"
  /\ SolveEq(constraints[Chosen].expr.info.effect, constraints[Chosen].t, Chosen)

\* instantiate the scheme, then the use equals the instance
SolveExplicitInstance ==
  /\ pc = "solving"
  /\ Chosen # 0
  /\ constraints[Chosen].tag = "explicit-instance-constraint"
  /\ LET c == constraints[Chosen]
         inst == instantiate(c.t, counter)
         r == unify(c.expr.info.type, inst.type, solution, inst.n, MaxRewrites)
     IN  /\ last' = Step(Chosen)
         /\ IF r.tag = "unify-success"
            THEN /\ solution' = r.substitution
                 /\ constraints' =
                      Map(Others(constraints, Chosen),
                          LAMBDA d : applySubstitutionToConstraint(d, r.substitution))
                 /\ counter' = r.n
                 /\ UNCHANGED <<pc, error>>
            ELSE /\ pc' = IF r.tag = "no-termination" THEN "no-termination"
                          ELSE "error"
                 /\ error' = IF r.tag = "no-termination" THEN "none" ELSE r.tag
                 /\ solution' = solutionAfterFailure(r, solution)
                 /\ UNCHANGED <<constraints, counter>>
  /\ UNCHANGED <<input, typed, groups, cycle>>

\* generalize the template; the use is an instance of the scheme
SolveImplicitInstance ==
  /\ pc = "solving"
  /\ Chosen # 0
  /\ constraints[Chosen].tag = "implicit-instance-constraint"
  /\ LET c == constraints[Chosen]
     IN  /\ last' = Step(Chosen)
         /\ constraints' =
              <<constExplicitInstance(c.expr, generalize(c.t, c.monovars))>>
              \o Others(constraints, Chosen)
  /\ UNCHANGED <<input, pc, solution, counter, typed, groups, error, cycle>>

\* no pending constraint is solvable
SolverStuck ==
  /\ pc = "solving"
  /\ constraints # <<>>
  /\ Chosen = 0
  /\ pc' = "error"
  /\ error' = "solver-stuck"
  /\ UNCHANGED <<input, constraints, solution, counter, typed, groups, cycle,
                 last>>

\* solve returns; the substitution is applied to the typed forms and to the
\* unknowns
Finish ==
  /\ pc = "solving"
  /\ constraints = <<>>
  /\ pc' = "done"
  /\ typed' = Map(typed, LAMBDA e : IF "info" \in DOMAIN e
                                    THEN applySubstitutionToExpr(e, solution)
                                    ELSE e)
  /\ groups' = [groups EXCEPT !.unknowns =
                  Map(@, LAMBDA v : applySubstitutionToExpr(v, solution))]
  /\ UNCHANGED <<input, constraints, solution, counter, error, cycle, last>>

Next ==
  \/ InferRaises
  \/ InferType
  \/ InferModuleCycle
  \/ InferDiverges
  \/ InferModule
  \/ SolveEqual
  \/ SolveEffect
  \/ SolveExplicitInstance
  \/ SolveImplicitInstance
  \/ SolverStuck
  \/ Finish

Spec == Init /\ [][Next]_vars

(***************************************************************************)
(* Properties                                                              *)
(***************************************************************************)

Program == Inputs[input]

Failed == pc \in {"error", "no-termination", "expansion-diverges"}

Pending(tag) == {i \in DOMAIN constraints : constraints[i].tag = tag}

\* C1: a let-bound name is polymorphic in the let body and a lambda
\* parameter is monomorphic in the lambda body.  The uses of `id` in
\* (let {id (lambda (x) x)} (id id)) are ImplicitInstance constraints on the
\* type of the value and the expression is typable (as is the let of input
\* 4, with `id` used at string and at number); the uses of the parameter in
\* (lambda (id) (id id)) and (lambda (f) ((f "foo") (f 0))) are Equal
\* constraints and the solver rejects both.
LetPolymorphismLambdaMonomorphism ==
  /\ input \in {1, 4} => ~Failed
  /\ input \in {1, 4} /\ pc = "solving" /\ last = NoStep =>
        /\ Cardinality(Pending("implicit-instance-constraint")) = 2
        /\ \A i \in Pending("implicit-instance-constraint") :
              /\ constraints[i].expr.node.name = "id"
              /\ constraints[i].t.tag = "application"
              /\ constraints[i].t.op = tcArrow
  /\ input \in {2, 3} => pc # "done"
  /\ input \in {2, 3} /\ pc = "solving" /\ last = NoStep =>
        /\ Pending("implicit-instance-constraint") = {}
        /\ Pending("explicit-instance-constraint") = {}
        /\ \E i \in Pending("equal-constraint") :
              /\ "node" \in DOMAIN constraints[i].expr
              /\ constraints[i].expr.node.name \in {"id", "f"}
              /\ constraints[i].t.tag = "type-variable"

LetPolymorphismTyped ==
  /\ input = 1
  /\ pc = "done"
  /\ typed[1].info.type.tag = "application"
  /\ typed[1].info.type.op = tcArrow
  /\ typed[1].info.type.args[1] = typed[1].info.type.args[3]

\* The type variables that occur in a constraint
freeVarsOfConstraint(c) ==
  CASE c.tag = "equal-constraint" ->
         listTypeVariables(c.expr.info.type) \cup listTypeVariables(c.t)
    [] c.tag = "equal-effect-constraint" ->
         listTypeVariables(c.expr.info.effect) \cup listTypeVariables(c.t)
    [] c.tag = "implicit-instance-constraint" ->
         listTypeVariables(c.expr.info.type) \cup listTypeVariables(c.t)
    [] c.tag = "explicit-instance-constraint" ->
         listTypeVariables(c.expr.info.type) \cup
         (listTypeVariables(c.t.mono) \ Range(c.t.tvars))

\* The variables an ImplicitInstance constraint would generalize
generalized(c) == listTypeVariables(c.t) \ c.monovars

OccursSoundness ==
  /\ \A v \in DOMAIN solution :
        /\ v \notin listTypeVariables(solution[v])
        /\ v \notin listTypeVariables(applySubstitution(solution[v], solution))
  /\ input = 2 /\ pc = "error" => error = "occurs-check"

OccursCheckFailed ==
  /\ input = 2
  /\ error = "occurs-check"
  /\ last.tag = "equal-constraint"
  /\ DOMAIN solution # {}
\* C3: the solver terminates on every constraint list: no step of it runs
\* into a unification that does not end.
SolverTerminates == pc # "no-termination"

\* The variables that stand for a row in t: the tail of a row extension and
\* the operand of record, variant and effect
RECURSIVE rowVariables(_)
rowVariables(t) ==
  CASE t.tag = "application" ->
         UNION {rowVariables(t.args[i]) : i \in DOMAIN t.args}
         \cup (IF t.op \in {tcRecord, tcVariant, tcEffect}
                  /\ t.args[1].tag = "type-variable"
               THEN {t.args[1].name} ELSE {})
    [] t.tag = "row-extension" ->
         rowVariables(t.labelType) \cup rowVariables(t.extends)
         \cup (IF t.extends.tag = "type-variable"
               THEN {t.extends.name} ELSE {})
    [] OTHER -> {}

\* The row variables of the types of the typed forms and of the bindings
rowKinded ==
  UNION {rowVariables(typed[i].info.type) :
           i \in {j \in DOMAIN typed : "info" \in DOMAIN typed[j]}}
  \cup UNION {rowVariables(solution[v]) : v \in DOMAIN solution}

\* C5: every binding of the substitution preserves kinds: a variable that
\* stands for a row is bound only to a row (the empty row, a row extension
\* or a variable).
KindPreservation ==
  \A v \in DOMAIN solution :
    v \in rowKinded =>
      solution[v].tag \in {"empty-row", "row-extension", "type-variable"}
\* The rows the permutation property is tried on: three labels, the field
\* types of the two sides pairwise unifiable, the tail closed or a variable
RowOrders == {p \in [1..3 -> 1..3] : \A i, j \in 1..3 : p[i] = p[j] => i = j}

RowTails == {emptyRow, tVar("r", FALSE)}

LeftFields ==
  <<[label |-> ":x", type |-> tNumber],
    [label |-> ":y", type |-> tVar("a", FALSE)],
    [label |-> ":z", type |-> tVector(tVar("b", FALSE))]>>

RightFields ==
  <<[label |-> ":x", type |-> tVar("c", FALSE)],
    [label |-> ":y", type |-> tString],
    [label |-> ":z", type |-> tVector(tNumber)]>>

Permuted(fields, p) == [i \in 1..3 |-> fields[p[i]]]

\* C6: two rows with the same distinct labels, pairwise unifiable field
\* types and the same tail unify whatever the order of the labels on either
\* side, and unifying them generates no variable: the substitution binds
\* only variables of the field types.  So the records of inputs 13 and 14,
\* written in two orders, have one type and solving them leaves the
\* fresh-variable counter where the generator left it.
RowPermutation ==
  /\ \A tail \in RowTails : \A p, q \in RowOrders :
        LET r == unify(tRow(Permuted(LeftFields, p), tail),
                       tRow(Permuted(RightFields, q), tail),
                       EmptySubstitution, 100, MaxRewrites)
        IN  /\ r.tag = "unify-success"
            /\ r.n = 100
            /\ DOMAIN r.substitution = {"a", "b", "c"}
            /\ r.substitution["a"] = tString
            /\ r.substitution["c"] = tNumber
  /\ input \in {13, 14} => ~Failed
  /\ input \in {13, 14} /\ pc \in {"solving", "done"} =>
        counter = infer(Program.expr, {}, Program.internalTypes,
                        Program.counter).n

RowPermutationTyped ==
  /\ input = 14
  /\ pc = "done"
  /\ \E v \in DOMAIN solution :
        /\ solution[v].tag = "application"
        /\ solution[v].op = tcRecord
        /\ solution[v].args[1].tag = "row-extension"

\* C7: a record literal with a tail only updates: when the tail is a closed
\* record without one of the listed labels, as in {:y 2 | {:x 1}} and
\* {:x 1 :y 2 | {:x 1}}, inference fails with row-label-missing; the
\* literal {:x "foo" | {:x 1}}, whose tail has the label, is typed.
RecordsCannotBeExtended ==
  /\ input \in {5, 31} => pc # "done"
  /\ input \in {5, 31} /\ pc = "error" => error = "row-label-missing"
  /\ input = 6 => ~Failed

RecordExtensionRejected ==
  /\ input = 5
  /\ pc = "error"
  /\ error = "row-label-missing"
  /\ last.tag = "equal-constraint"

\* C8: a user-specified type variable unifies with a generated variable
\* and with nothing else: against a constant, an application or a
\* user-specified variable of another name unification fails with
\* annotation-too-general.  So (the a 3), (the (-> a _ a) (the (-> string _
\* string) (lambda (x) x))) and (the (-> b _ a) (the (-> a _ a) (lambda (x)
\* x))) fail with annotation-too-general, (the (-> a a) (the (-> string
\* string) (lambda (x) x))) is rejected, and (the [a] []) is typed as a
\* vector of a variable.
AnnotationLimits ==
  /\ \A t \in {tNumber, tVector(tVar("t1", FALSE)), tVar("b", TRUE)} :
        /\ unify(tVar("a", TRUE), t, EmptySubstitution, 1, MaxRewrites).tag
             = "annotation-too-general"
        /\ unify(t, tVar("a", TRUE), EmptySubstitution, 1, MaxRewrites).tag
             = "annotation-too-general"
  /\ unify(tVar("a", TRUE), tVar("t1", FALSE), EmptySubstitution, 1,
           MaxRewrites).tag = "unify-success"
  /\ unify(tVar("t1", FALSE), tVar("a", TRUE), EmptySubstitution, 1,
           MaxRewrites).tag = "unify-success"
  /\ input \in {7, 9, 10, 32} => pc # "done"
  /\ input \in {7, 9, 10} /\ pc = "error" => error = "annotation-too-general"
  /\ input = 8 => ~Failed
  /\ input = 8 /\ pc = "done" =>
        /\ typed[1].info.type.tag = "application"
        /\ typed[1].info.type.op = tcVector
        /\ typed[1].info.type.args[1].tag = "type-variable"

AnnotationTooGeneral ==
  /\ input = 7
  /\ pc = "error"
  /\ error = "annotation-too-general"
\* How many entries of the sequence s are x
Count(s, x) == Cardinality({i \in DOMAIN s : s[i] = x})

\* The instance constraints the module driver added for the use a
DriverConstraints(a) ==
  {i \in DOMAIN constraints :
     /\ constraints[i].tag \in {"implicit-instance-constraint",
                                "explicit-instance-constraint"}
     /\ constraints[i].expr = a}

\* C9: inferModule partitions the assumptions of the body: each is in
\* exactly one of the groups internal, external and unknown, and so has
\* exactly one outcome: one instance constraint or one entry of unknowns.
AssumptionsPartitioned ==
  Program.kind = "module" /\ pc = "solving" /\ last = NoStep =>
    \A i \in DOMAIN groups.all :
      LET a == groups.all[i]
      IN  /\ Count(groups.internals, a) + Count(groups.externals, a)
               + Count(groups.unknowns, a) = 1
          /\ Cardinality(DriverConstraints(a)) + Count(groups.unknowns, a) = 1

\* C10: the cycle check rejects the alias sets with a cycle and accepts
\* the others: the self-loop of (type A [A]) is reported as "Recursive type
\* aliases are not allowed.", the cycles of inputs 26 and 28 with the path
\* A -> B -> A, and the acyclic alias sets of inputs 27 and 30 pass.
AliasCycleCheck ==
  /\ input \in {25, 26, 28} => pc \in {"start", "error"}
  /\ input = 25 /\ pc = "error" =>
        error = "Recursive type aliases are not allowed."
  /\ input \in {26, 28} /\ pc = "error" =>
        /\ error = "Cicular dependency in type aliases found"
        /\ cycle = <<"A", "B", "A">>
  /\ input \in {27, 30} => ~Failed
\* The alias constants of env that t mentions
aliasConstants(t, env) ==
  {c \in Range(listTypeConstants(t)) : c \in DOMAIN env}

\* C11: in an annotation a constant that names an alias of the internal
\* type environment is replaced, recursively, by its definition and unifies
\* with it: (the ID 5) has type number, (if true (the ID 5) 3) is typed,
\* (the Person {:name "david"}) is the record, and the aliases of the
\* modules 27 and 30, defined through other aliases, expand to the end.  A
\* constant that is only in the external environment's types or in no
\* table stays opaque: (if true (the ID 5) 3) and (the Point 5) fail with
\* constant-mismatch and (lambda (x) (the ID x)) has type (-> ID e ID).
AliasExpansion ==
  /\ input \in {27, 30, 33, 36, 37} => ~Failed
  /\ input \in {33, 36} /\ pc = "done" => typed[1].info.type = tNumber
  /\ input = 37 /\ pc = "done" => typed[1].info.type = AliasTypes["Person"]
  /\ input = 27 /\ pc = "done" => typed[3].info.type = tVector(tNumber)
  /\ input \in {27, 30, 33, 36, 37} /\ pc \in {"solving", "done"} =>
        \A i \in DOMAIN typed :
          "info" \in DOMAIN typed[i] =>
            aliasConstants(typed[i].info.type,
                           IF Program.kind = "module"
                           THEN internalTypesOf(Program.body, NoVariables)
                           ELSE Program.internalTypes) = {}
  /\ input \in {34, 38} => pc # "done"
  /\ input \in {34, 38} /\ pc = "error" => error = "constant-mismatch"
  /\ input = 35 => ~Failed
  /\ input = 35 /\ pc = "done" =>
        /\ typed[1].info.type.op = tcArrow
        /\ typed[1].info.type.args[1] = tUserDefined("ID")
        /\ typed[1].info.type.args[3] = tUserDefined("ID")

AliasExpandedInAnnotation ==
  /\ input = 27
  /\ pc = "done"
  /\ typed[3].info.type = tVector(tNumber)

(***************************************************************************)
(* The generator and empty bodies                                          *)
(***************************************************************************)

\* The expressions of the forms of the program
programExpressions ==
  IF Program.kind = "expression" THEN subexpressions(Program.expr)
  ELSE UNION {IF Program.body[i].tag = "definition"
              THEN subexpressions(Program.body[i].value)
              ELSE IF Program.body[i].tag = "type-alias" THEN {}
              ELSE subexpressions(Program.body[i]) :
                i \in DOMAIN Program.body}

\* The run failed before the generator returned, and not in the cycle check
GeneratorFailed ==
  /\ pc = "error"
  /\ typed = <<>>
  /\ error \notin {"Recursive type aliases are not allowed.",
                   "Cicular dependency in type aliases found"}

\* C12: the generator never fails: whatever the expression tree,
\* bodies and case lists of any length included, it returns typed forms,
\* and every failure of a run comes from the solver or from the check of
\* the alias cycles.
GeneratorNeverFails == ~GeneratorFailed

(***************************************************************************)
(* Substitutions                                                           *)
(***************************************************************************)

\* The types a state holds: those of the typed forms, of the pending
\* constraints, of the unknowns, and the variables and images of the
\* substitution
typesOfState ==
  {typed[i].info.type : i \in {j \in DOMAIN typed : "info" \in DOMAIN typed[j]}}
  \cup {constraints[i].expr.info.type : i \in DOMAIN constraints}
  \cup {constraints[i].expr.info.effect : i \in DOMAIN constraints}
  \cup {groups.all[i].info.type : i \in DOMAIN groups.all}
  \cup {tVar(v, FALSE) : v \in DOMAIN solution}
  \cup {solution[v] : v \in DOMAIN solution}

\* C14: applying a substitution the solver produced is idempotent: for every
\* type t, apply(s, apply(s, t)) = apply(s, t), and apply(s, t) has no
\* variable of the domain of s.
SubstitutionIdempotent ==
  \A t \in typesOfState :
    /\ applySubstitution(applySubstitution(t, solution), solution)
         = applySubstitution(t, solution)
    /\ listTypeVariables(applySubstitution(t, solution))
         \cap DOMAIN solution = {}

\* The solver produced a substitution in which an image has a variable of
\* the domain, and a type of the state that it rewrites holds that variable
SubstitutionChained ==
  /\ pc \in {"solving", "done"}
  /\ \E v \in DOMAIN solution :
       listTypeVariables(solution[v]) \cap DOMAIN solution # {}
  /\ \E t \in typesOfState :
       /\ applySubstitution(t, solution) # t
       /\ applySubstitution(t, solution) # applySubstitutionOnce(t, solution)

(***************************************************************************)
(* Unknowns                                                                *)
(***************************************************************************)

\* The names the module defines
definedNames ==
  {Program.body[i].variable :
     i \in {j \in DOMAIN Program.body : Program.body[j].tag = "definition"}}

\* name is no definition of the module, no binding of the external
\* environment and no inline primitive
unresolvable(name) ==
  /\ name \notin definedNames
  /\ name \notin DOMAIN Program.env.variables
  /\ name \notin {"true", "+", ":x"}

\* The uses, among the assumptions of the module, of unresolvable names
unresolvableUses ==
  SelectSeq(groups.all, LAMBDA v : unresolvable(v.node.name))

\* C15: in inferModule a use of a name that is no definition of the module,
\* no binding of the external environment and no inline primitive raises no
\* error and adds no constraint: solve starts on the constraints of the
\* generator and of the other uses only, and the use is returned in
\* unknowns, its type rewritten by the solution.
UnknownsReturned ==
  (Program.kind = "module" /\ pc \notin {"start"} /\ typed # <<>>) =>
    /\ \A i \in DOMAIN constraints :
         (constraints[i].tag \in {"explicit-instance-constraint",
                                  "implicit-instance-constraint"}
          /\ constraints[i].expr.node.tag = "variable-reference")
           => ~unresolvable(constraints[i].expr.node.name)
    /\ pc # "done" => groups.unknowns = unresolvableUses
    /\ pc = "done" =>
         /\ Len(groups.unknowns) = Len(unresolvableUses)
         /\ \A i \in DOMAIN groups.unknowns :
              /\ groups.unknowns[i].node = unresolvableUses[i].node
              /\ groups.unknowns[i].info.type =
                   applySubstitution(unresolvableUses[i].info.type, solution)
    /\ (unresolvableUses # <<>> /\ pc = "error") => last # NoStep

\* The module of input 29 is typed, and its unknown u, an operand of +, is
\* returned with the type number
UnknownReturnedTyped ==
  /\ input = 29
  /\ pc = "done"
  /\ Len(groups.unknowns) = 1
  /\ groups.unknowns[1].node.name = "u"
  /\ groups.unknowns[1].info.type = tNumber
  /\ unresolvableUses[1].info.type # tNumber

(***************************************************************************)
(* The results of unify                                                    *)
(***************************************************************************)

\* The fields of a row, in its order, and its tail
RECURSIVE fieldsOfRow(_)
fieldsOfRow(row) ==
  IF row.tag = "row-extension"
  THEN <<[label |-> row.label, type |-> row.labelType]>>
       \o fieldsOfRow(row.extends)
  ELSE <<>>

RECURSIVE tailOfRow(_)
tailOfRow(row) ==
  IF row.tag = "row-extension" THEN tailOfRow(row.extends) ELSE row

\* a and b are the same type up to the order of the labels of their rows
RECURSIVE equalUpToLabelOrder(_, _)
equalUpToLabelOrder(a, b) ==
  CASE a.tag = "row-extension" /\ b.tag = "row-extension" ->
         /\ Len(fieldsOfRow(a)) = Len(fieldsOfRow(b))
         /\ tailOfRow(a) = tailOfRow(b)
         /\ \A i \in DOMAIN fieldsOfRow(a) :
              \E j \in DOMAIN fieldsOfRow(b) :
                /\ fieldsOfRow(a)[i].label = fieldsOfRow(b)[j].label
                /\ equalUpToLabelOrder(fieldsOfRow(a)[i].type,
                                       fieldsOfRow(b)[j].type)
         /\ \A j \in DOMAIN fieldsOfRow(b) :
              \E i \in DOMAIN fieldsOfRow(a) :
                fieldsOfRow(a)[i].label = fieldsOfRow(b)[j].label
    [] a.tag = "application" /\ b.tag = "application" ->
         /\ equalUpToLabelOrder(a.op, b.op)
         /\ Len(a.args) = Len(b.args)
         /\ \A i \in DOMAIN a.args : equalUpToLabelOrder(a.args[i], b.args[i])
    [] OTHER -> a = b

\* The two sides of the equality the solver unified in its last step
lastLeft ==
  IF last.tag = "equal-constraint" THEN last.constraint.expr.info.type
  ELSE last.constraint.expr.info.effect

lastRight == last.constraint.t

lastUnified ==
  /\ last.tag \in {"equal-constraint", "equal-effect-constraint"}
  /\ ~Failed

\* The last step of the solver was a unification that did not succeed
lastNotUnified ==
  /\ last # NoStep
  /\ Failed
  /\ error # "solver-stuck"

RECURSIVE annotationLeaves(_)
annotationLeaves(sexpr) ==
  CASE sexpr.type = "symbol" -> <<sexpr.name>>
    [] sexpr.type = "list" ->
         Flatten([i \in DOMAIN Tail(sexpr.elements) |->
                    annotationLeaves(Tail(sexpr.elements)[i])])
    [] sexpr.type = "vector" ->
         Flatten([i \in DOMAIN sexpr.elements |->
                    annotationLeaves(sexpr.elements[i])])
    [] sexpr.type = "map" ->
         Flatten([i \in DOMAIN sexpr.fields |->
                    annotationLeaves(sexpr.fields[i].value)])
         \o (IF sexpr.tail = NoTail THEN <<>>
             ELSE annotationLeaves(sexpr.tail))

\* The constants and variables of a type, left to right, the operator of
\* an application and the empty row left out
RECURSIVE typeLeaves(_)
typeLeaves(t) ==
  CASE t.tag = "application" ->
         Flatten([i \in DOMAIN t.args |-> typeLeaves(t.args[i])])
    [] t.tag = "row-extension" ->
         typeLeaves(t.labelType) \o typeLeaves(t.extends)
    [] t.tag = "empty-row" -> <<>>
    [] OTHER -> <<t>>

\* The annotation the program of an input was read from
AnnotationRead ==
  (11 :> AnnRowKind) @@ (12 :> AnnSameTail) @@ (43 :> AnnAnonNamed)
  @@ (44 :> AnnSharedNamed) @@ (45 :> AnnAnonymous)

\* names are the symbols of an annotation and types what instantiate made
\* of them: an anonymous wildcard shares its variable with no other
\* wildcard, the occurrences of a named wildcard share theirs
wildcardsKept(names, types) ==
  /\ Len(names) = Len(types)
  /\ \A i, j \in DOMAIN names :
       /\ (i # j /\ names[i] = "_" /\ names[j] \in WildcardNames \cup {"_"})
            => types[i] # types[j]
       /\ (names[i] = names[j] /\ names[i] \in WildcardNames)
            => types[i] = types[j]

\* C17: within one annotation every anonymous wildcard _ denotes a fresh
\* variable, distinct from the variable of every other wildcard occurrence,
\* anonymous or named, while the occurrences of one named wildcard denote
\* the same variable; _ is never identified with a named wildcard the user
\* can write: in (the (-> _ _ __t1) (lambda (x) 42)) the argument stays a
\* variable, it is not the number of the result.
WildcardsIndependent ==
  /\ (input \in DOMAIN AnnotationRead /\ pc # "start") =>
       wildcardsKept(
         annotationLeaves(AnnotationRead[input]),
         typeLeaves(instantiateWildcards(
                      convert(AnnotationRead[input], 1).type,
                      Program.counter).type))
  /\ (input = 43 /\ pc = "done") =>
       typed[1].info.type.args[1].tag = "type-variable"

(***************************************************************************)
(* The effects of a let                                                    *)
(***************************************************************************)

\* The number of bindings of the lets of an expression
RECURSIVE letBindings(_)
RECURSIVE letBindingsMany(_)
letBindingsMany(exprs) ==
  IF exprs = <<>> THEN 0
  ELSE letBindings(Head(exprs)) + letBindingsMany(Tail(exprs))

letBindings(expr) ==
  (IF expr.tag = "let-bindings" THEN Len(expr.bindings) ELSE 0)
  + letBindingsMany(childrenOf(expr))

\* The pending constraints that equate an effect with the empty effect
emptyEffectConstraints ==
  {i \in DOMAIN constraints :
     /\ constraints[i].tag = "equal-effect-constraint"
     /\ constraints[i].t = tEffect(<<>>)}

\* C18: the values of the bindings of a let are free of effects: the
\* generator emits, for each value of each let, an EffectEqual constraint
\* with the empty effect row; a let whose value performs an effect is
\* rejected, a parameter called in a value gets the empty effect
\* ((lambda (f) (let {x (f)} x)) : (-> (-> (effect) a) b a)), and the forms
\* of the body share the effect of the let itself.
LetValuesEffectFree ==
  /\ (Program.kind = "expression" /\ pc = "solving" /\ last = NoStep) =>
       Cardinality(emptyEffectConstraints) = letBindings(Program.expr)
  /\ input = 46 => pc # "done"
  /\ (input = 46 /\ pc = "error") => error = "row-label-missing"
  /\ (input = 47 /\ pc = "done") =>
       /\ typed[1].info.type = tNumber
       /\ typed[1].info.effect = tEffect(<<"console">>)
  /\ (input = 18 /\ pc = "done") =>
       /\ typed[1].info.type.op = tcArrow
       /\ Len(typed[1].info.type.args) = 3
       /\ typed[1].info.type.args[1].tag = "application"
       /\ typed[1].info.type.args[1].op = tcArrow
       /\ Len(typed[1].info.type.args[1].args) = 2
       /\ typed[1].info.type.args[1].args[1] = tEffect(<<>>)
       /\ typed[1].info.type.args[1].args[2] = typed[1].info.type.args[3]
       /\ typed[1].info.type.args[3].tag = "type-variable"
       /\ typed[1].info.type.args[2].tag = "type-variable"
       /\ typed[1].info.type.args[2] # typed[1].info.type.args[3]

\* (lambda (f) (let {x (f)} x)) is typed, and the parameter f, called in the
\* value of the binding, has the empty effect
LetValueCallEffectFree ==
  /\ input = 18
  /\ pc = "done"
  /\ typed[1].info.type.args[1].args[1] = tEffect(<<>>)
  /\ typed[1].info.type.args[1].args[2] = typed[1].info.type.args[3]

(***************************************************************************)
(* Generalization and the parameters of the enclosing functions            *)
(***************************************************************************)

\* The type variables of the parameters of the functions of an input: the
\* parameter of the outermost lambda gets the first fresh variable
ParameterVars ==
  (18 :> {"t1"}) @@ (48 :> {"t1"}) @@ (49 :> {"t1"})

\* The variables of the types the substitution gives the parameters
parameterTypeVars ==
  IF input \in DOMAIN ParameterVars
  THEN UNION {listTypeVariables(applySubstitution(tVar(p, FALSE), solution)) :
                p \in ParameterVars[input]}
  ELSE {}

\* The solver has just generalized: its last step chose an ImplicitInstance
justGeneralized ==
  /\ pc = "solving"
  /\ last.tag = "implicit-instance-constraint"

\* C19: generalization respects the live monomorphic set: solving
\* ImplicitInstance(use, monovars, t) quantifies exactly the free variables
\* of t that are not in monovars, the monovars of a form nested in lambdas
\* hold the variables of the types of their parameters, and no variable
\* that the substitution makes occur in the type of a parameter is
\* quantified: a let nested in a lambda never generalizes over the types of
\* the parameters ((lambda (x) (let {y x} y)) returns the type of x, and g
\* bound to a parameter cannot be called on a number and on a string).
GeneralizationRespectsMonovars ==
  /\ justGeneralized =>
       /\ constraints[1].tag = "explicit-instance-constraint"
       /\ Range(constraints[1].t.tvars) =
            listTypeVariables(last.constraint.t) \ last.constraint.monovars
       /\ constraints[1].t.mono = last.constraint.t
       /\ parameterTypeVars \subseteq last.constraint.monovars
       /\ Range(constraints[1].t.tvars) \cap parameterTypeVars = {}
  /\ (input = 48 /\ pc = "done") =>
       /\ typed[1].info.type.args[1] = typed[1].info.type.args[3]
       /\ typed[1].info.type.args[1] =
            applySubstitution(tVar("t1", FALSE), solution)
  /\ input = 49 => pc # "done"

\* In (lambda (x) (let {y x} y)) the use of y is generalized when the type
\* of the value is a variable of the type of the parameter x: nothing is
\* quantified
ParameterNotGeneralized ==
  /\ input = 48
  /\ justGeneralized
  /\ listTypeVariables(last.constraint.t) # {}
  /\ listTypeVariables(last.constraint.t) \subseteq parameterTypeVars
  /\ constraints[1].t.tvars = <<>>

(***************************************************************************)
(* The instances of a scheme                                               *)
(***************************************************************************)

\* The variables of the types a state holds, the bodies of the pending
\* schemes included
varsOfState ==
  UNION {listTypeVariables(t) : t \in typesOfState}
  \cup UNION {listTypeVariables(IF constraints[i].tag =
                                     "explicit-instance-constraint"
                                  THEN constraints[i].t.mono
                                  ELSE constraints[i].t) :
                i \in DOMAIN constraints}

\* instance is the scheme with each quantified variable renamed to a
\* variable no type of the state holds, two variables to two, a variable
\* that stands for a row to one that stands for a row
freshInstance(scheme, instance) ==
  /\ listTypeVariables(instance) \cap Range(scheme.tvars) = {}
  /\ (listTypeVariables(instance) \ listTypeVariables(scheme.mono))
       \cap varsOfState = {}
  /\ Cardinality(listTypeVariables(instance)
                   \ listTypeVariables(scheme.mono))
       = Cardinality(listTypeVariables(scheme.mono) \cap Range(scheme.tvars))
  /\ listTypeVariables(scheme.mono) \ Range(scheme.tvars)
       \subseteq listTypeVariables(instance)
  /\ Cardinality(rowVariables(instance) \ listTypeVariables(scheme.mono))
       = Cardinality(rowVariables(scheme.mono) \cap Range(scheme.tvars))

\* The types the solution gives the uses of name among the assumptions
typesOfUses(name) ==
  {applySubstitution(groups.all[i].info.type, solution) :
     i \in {j \in DOMAIN groups.all : groups.all[j].node.name = name}}

\* C20: solving ExplicitInstance(use, scheme) replaces every quantified
\* variable of the scheme by a fresh variable of the same kind, never
\* shared between two uses, then unifies the use with that instance: two
\* uses of one external binding can have different instance types in one
\* expression ((+ ((const 5) "foo") ((const 5) 23)) : number).
ExplicitInstanceFresh ==
  /\ (pc = "solving" /\ Chosen # 0
        /\ constraints[Chosen].tag = "explicit-instance-constraint") =>
       freshInstance(constraints[Chosen].t,
                     instantiate(constraints[Chosen].t, counter).type)
  /\ (last.tag = "explicit-instance-constraint" /\ ~Failed) =>
       listTypeVariables(applySubstitution(last.constraint.expr.info.type,
                                           solution))
         \cap Range(last.constraint.t.tvars) = {}
  /\ input = 50 => ~Failed
  /\ (input = 50 /\ pc = "done") =>
       /\ typed[1].info.type = tNumber
       /\ Cardinality(typesOfUses("const")) = 2

\* (+ ((const 5) "foo") ((const 5) 23)) is typed number, the two uses of
\* const at two instances of its scheme
ConstUsedAtTwoInstances ==
  /\ input = 50
  /\ pc = "done"
  /\ typed[1].info.type = tNumber
  /\ Cardinality(typesOfUses("const")) = 2

(***************************************************************************)
(* The solver stuck                                                        *)
(***************************************************************************)

\* C21: the solver fails with solver-stuck only when the pending list is
\* not empty and no pending constraint is solvable, and that state is an
\* internal invariant violation: it is never reached on the constraints the
\* generator and the module driver build from a module.
SolverStuckNeverOnModule ==
  /\ error = "solver-stuck" =>
       /\ pc = "error"
       /\ constraints # <<>>
       /\ \A i \in DOMAIN constraints : ~solvable(constraints, i)
  /\ Program.kind = "module" => error # "solver-stuck"

(***************************************************************************)
(* Record literals with a tail                                             *)
(***************************************************************************)

\* C22: for a record literal with a tail every listed label is overridden:
\* in the result each listed field has the type of the value of the
\* literal, whatever type the tail gives the label, and the rest of the row
\* is the row of the tail without the listed labels: {:x "foo" | {:x 1}} is
\* {:x string}, and (lambda (r v) {:x v | r}) is
\* (-> {:x a | b} c d {:x c | b}).
RecordUpdateOverrides ==
  /\ input \in {6, 16} => ~Failed
  /\ (input = 6 /\ pc = "done") =>
       typed[1].info.type =
         tRecord(<<[label |-> ":x", type |-> tString]>>, emptyRow)
  /\ (input = 16 /\ pc = "done") =>
       /\ typed[1].info.type.op = tcArrow
       /\ Len(typed[1].info.type.args) = 4
       /\ typed[1].info.type.args[1].op = tcRecord
       /\ fieldsOfRow(typed[1].info.type.args[1].args[1]) =
            <<[label |-> ":x",
               type |-> typed[1].info.type.args[1].args[1].labelType]>>
       /\ typed[1].info.type.args[1].args[1].labelType.tag = "type-variable"
       /\ tailOfRow(typed[1].info.type.args[1].args[1]).tag = "type-variable"
       /\ typed[1].info.type.args[2].tag = "type-variable"
       /\ typed[1].info.type.args[2] #
            typed[1].info.type.args[1].args[1].labelType
       /\ typed[1].info.type.args[4] =
            tRecord(<<[label |-> ":x", type |-> typed[1].info.type.args[2]]>>,
                    tailOfRow(typed[1].info.type.args[1].args[1]))

\* {:x "foo" | {:x 1}} is typed {:x string}: the field of the literal
\* replaced the number the tail has at :x
RecordFieldOverridden ==
  /\ input = 6
  /\ pc = "done"
  /\ typed[1].info.type =
       tRecord(<<[label |-> ":x", type |-> tString]>>, emptyRow)

(***************************************************************************)
(* The rewrites of row unification                                         *)
(***************************************************************************)

\* The unification the solver is about to run for the chosen Equal
chosenUnify ==
  unify(constraints[Chosen].expr.info.type, constraints[Chosen].t,
        solution, counter, MaxRewrites)

\* C23: row unification terminates for every pair of rows: each rewrite
\* that surfaces a label introduces a fresh tail variable and no rewrite
\* goes past an empty row; unifying two rows with different head labels
\* over the same tail variable ends, with a result or an error, after
\* finitely many rewrites.
RowUnificationTerminates ==
  (pc = "solving" /\ Chosen # 0
     /\ constraints[Chosen].tag = "equal-constraint") =>
    chosenUnify.tag # "no-termination"

(***************************************************************************)
(* The running substitution                                                *)
(***************************************************************************)

programLambdas ==
  {e \in programExpressions : e.tag = "function" /\ raises(e) = NoRaise}

\* The types of the aliases inference runs with
programTypes ==
  IF Program.kind = "expression" THEN Program.internalTypes
  ELSE internalTypesOf(Program.body, NoVariables)

\* r is what infer returns for the lambda e and body what inferMany returns
\* for its body, the fresh variables counted from 1: the assumptions of the
\* parameters are gone, each into one Equal with the variable of its
\* parameter; the others are returned as they are, their type in no new
\* constraint (a form of the body has its effect equated with the effect of
\* the body, whether or not it is a use of a variable)
dischargesParameters(e, r, body) ==
  /\ r.assumptions =
       SelectSeq(body.assumptions,
                 LAMBDA v : ~Includes(e.lambdaList, v.node.name))
  /\ SubSeq(r.constraints, 1, Len(body.constraints)) = body.constraints
  /\ \A i \in DOMAIN body.assumptions :
       LET v == body.assumptions[i]
           new == SubSeq(r.constraints, Len(body.constraints) + 1,
                         Len(r.constraints))
           about == {j \in DOMAIN new :
                       /\ new[j].expr = v
                       /\ new[j].tag # "equal-effect-constraint"}
       IN  IF Includes(e.lambdaList, v.node.name)
           THEN /\ Cardinality(about) = 1
                /\ \A j \in about :
                     /\ new[j].tag = "equal-constraint"
                     /\ new[j].t =
                          generateUniqueTVar(IndexOf(e.lambdaList, v.node.name))
           ELSE about = {}

programLets ==
  {e \in programExpressions : e.tag = "let-bindings" /\ raises(e) = NoRaise}

\* r is what infer returns for the let e, values and body what inferMany
\* returns for the values of its bindings and for its body, the fresh
\* variables counted from 1
bindsInBodyOnly(e, r, values, body) ==
  /\ r.assumptions =
       SelectSeq(body.assumptions,
                 LAMBDA v : \A i \in DOMAIN e.bindings :
                              e.bindings[i].variable # v.node.name)
       \o values.assumptions
  /\ \A i \in DOMAIN body.assumptions :
       LET v == body.assumptions[i]
           about == {j \in DOMAIN r.constraints :
                       /\ r.constraints[j].tag = "implicit-instance-constraint"
                       /\ r.constraints[j].expr = v
                       /\ r.constraints[j] \notin Range(body.constraints)}
       IN  IF \E k \in DOMAIN e.bindings : e.bindings[k].variable = v.node.name
           THEN /\ Cardinality(about) = 1
                /\ \A j \in about :
                     \E k \in DOMAIN e.bindings :
                       /\ e.bindings[k].variable = v.node.name
                       /\ r.constraints[j].t = values.result[k].info.type
           ELSE about = {}
  /\ \A i \in DOMAIN values.assumptions :
       \A j \in DOMAIN r.constraints :
         (r.constraints[j].tag = "implicit-instance-constraint"
          /\ r.constraints[j].expr = values.assumptions[i])
           => r.constraints[j] \in Range(values.constraints)

letValues(e) == [i \in DOMAIN e.bindings |-> e.bindings[i].value]

\* C26: a let binds its names only in its body: the assumptions of the body
\* that name a variable of the let become ImplicitInstance constraints and
\* do not escape (a name of a let shadows an external binding or an inline
\* primitive: (let {+ 10} +) is number), and every assumption of the values
\* of the bindings, a use of a name of the let included, is returned
\* outward unchanged.
LetBindsInBodyOnly ==
  /\ pc # "start" =>
       \A e \in programLets :
         bindsInBodyOnly(
           e, infer(e, {}, programTypes, 1),
           inferMany(letValues(e), {}, programTypes, 1),
           inferMany(e.body, {}, programTypes,
                     inferMany(letValues(e), {}, programTypes, 1).n))
  /\ input = 51 => ~Failed
  /\ (input = 51 /\ pc = "done") => typed[1].info.type = tNumber
  /\ input = 52 => ~Failed

\* (let {f (lambda (n) (f n))} f) is typed: the use of f in the value of
\* the binding escaped the let, the only assumption inference is left with
LetValueUseEscaped ==
  /\ input = 52
  /\ pc = "done"
  /\ Len(groups.all) = 1
  /\ groups.all[1].node.name = "f"
  /\ typed[1].info.type.op = tcArrow

(***************************************************************************)
(* The pending constraints under the running substitution                  *)
(***************************************************************************)

\* The type variables a pending constraint mentions: those of the type and
\* of the effect of its expression and those of its type, the free ones of
\* a scheme, with the monomorphic set of an ImplicitInstance
mentionedBy(c) ==
  listTypeVariables(c.expr.info.type)
    \cup listTypeVariables(c.expr.info.effect)
    \cup CASE c.tag = "explicit-instance-constraint" ->
                listTypeVariables(c.t.mono) \ Range(c.t.tvars)
           [] c.tag = "implicit-instance-constraint" ->
                listTypeVariables(c.t) \cup c.monovars
           [] OTHER -> listTypeVariables(c.t)

\* C27: after every solver step the running substitution has been applied
\* to all the remaining constraints: no pending constraint, the template
\* type and the monomorphic set of a pending ImplicitInstance included,
\* mentions a variable in the domain of the running substitution.
PendingConstraintsSubstituted ==
  pc = "solving" =>
    \A i \in DOMAIN constraints :
      mentionedBy(constraints[i]) \cap DOMAIN solution = {}

\* a step bound a variable that the template type and the monomorphic set
\* of an ImplicitInstance pending at that step mentioned
SubstitutedPendingImplicitInstance ==
  /\ pc = "solving"
  /\ last # NoStep
  /\ \E i \in DOMAIN last.others :
       /\ last.others[i].tag = "implicit-instance-constraint"
       /\ last.others[i].monovars \cap DOMAIN solution # {}
       /\ listTypeVariables(last.others[i].t) \cap DOMAIN solution # {}
  /\ \E i \in DOMAIN constraints :
       /\ constraints[i].tag = "implicit-instance-constraint"
       /\ constraints[i].monovars # {}

(***************************************************************************)
(* Generalization and the pattern variables of match                       *)
(***************************************************************************)

\* The label type of the case of an input whose body binds a let to the
\* pattern variable: the variable the generator equates the uses of the
\* pattern variable with
LabelVars ==
  (53 :> {"t10"}) @@ (54 :> {"t15"})

\* The variables of the types the substitution gives the pattern variables
labelTypeVars ==
  IF input \in DOMAIN LabelVars
  THEN UNION {listTypeVariables(applySubstitution(tVar(l, FALSE), solution)) :
                l \in LabelVars[input]}
  ELSE {}

\* C28: in the body of a case of match the type of the pattern variable,
\* the fresh label type of the case, is monomorphic: a let nested in the
\* body whose value is the pattern variable is not generalized over the
\* label type, and every use of the name the let binds has the type of the
\* pattern variable ((match v ({:a x} (let {y x} y))) returns the label
\* type of :a, and y cannot be used as a boolean and as a number).
PatternVariableMonomorphic ==
  /\ justGeneralized =>
       Range(constraints[1].t.tvars) \cap labelTypeVars = {}
  /\ (input = 53 /\ pc = "done") =>
       typed[1].info.type = applySubstitution(tVar("t10", FALSE), solution)
  /\ input = 54 => pc # "done"

(***************************************************************************)
(* The termination of alias expansion                                      *)
(***************************************************************************)

\* The alias declarations of the module, in the order written
programAliases == SelectSeq(Program.body, LAMBDA f : isTypeAlias(f))

\* C29: alias expansion terminates in inferModule: the cycle check runs
\* before any form is given to the generator, and for every list of alias
\* declarations the check accepts, a list that declares a name more than
\* once included, the expansion of every annotation against the alias table
\* of the module reaches a type without alias constant after finitely many
\* replacements.
AliasExpansionTerminates ==
  Program.kind = "module" =>
    /\ (pc # "start" /\ checkCircularTypes(programAliases) # NoCycle) =>
         /\ pc = "error"
         /\ constraints = <<>>
         /\ typed = <<>>
    /\ (pc # "start" /\ checkCircularTypes(programAliases) = NoCycle) =>
         \A e \in programExpressions :
           e.tag = "type-annotation" =>
             expandTypeAliasesReturns(e.typeWithWildcards, programTypes)

(***************************************************************************)
(* inferType and the names without binding                                 *)
(***************************************************************************)

\* The name has no scheme in the external environment of the program and
\* is not an inline primitive
unbound(name) ==
  /\ name \notin DOMAIN Program.env.variables
  /\ name \notin DOMAIN InlinePrimitives

\* The escaping assumptions of the expression whose name is bound
boundUses == SelectSeq(groups.all, LAMBDA a : ~unbound(a.node.name))

\* C30: in inferType an escaping assumption whose name has no scheme in
\* the external environment and is not an inline primitive contributes no
\* constraint and raises no error: the solver starts on the constraints of
\* the expression followed by one ExplicitInstance per bound assumption,
\* the unbound use is the expression of none of them, every error comes
\* from a step of the solver or from the generator, and the typed
\* expression is returned ((let {f (lambda (n) (+ n (f n)))} f) has type
\* (-> number e number)).
InferTypeSkipsUnbound ==
  Program.kind = "expression" =>
    /\ (pc = "solving" /\ last = NoStep) =>
         /\ constraints =
              infer(Program.expr, {}, Program.internalTypes,
                    Program.counter).constraints
              \o Map(boundUses,
                     LAMBDA a : constExplicitInstance(
                                  a, IF a.node.name \in DOMAIN Program.env.variables
                                     THEN Program.env.variables[a.node.name]
                                     ELSE InlinePrimitives[a.node.name]))
         /\ \A i \in DOMAIN groups.all :
              unbound(groups.all[i].node.name) =>
                \A j \in DOMAIN constraints :
                  (constraints[j].tag = "explicit-instance-constraint")
                    => constraints[j].expr # groups.all[i]
    /\ pc = "error" => (last # NoStep \/ generatorRaises(Program) # NoRaise)
    /\ input \in {52, 57} => ~Failed
    /\ (input = 57 /\ pc = "done") =>
         /\ typed[1].info.type.op = tcArrow
         /\ typed[1].info.type.args[1] = tNumber
         /\ typed[1].info.type.args[3] = tNumber

\* (let {f (lambda (n) (+ n (f n)))} f) is typed although the f of the
\* value of the binding escapes and is bound nowhere
UnboundUseTyped ==
  /\ input = 57
  /\ pc = "done"
  /\ \E i \in DOMAIN groups.all :
       /\ groups.all[i].node.name = "f"
       /\ unbound("f")
  /\ \E i \in DOMAIN groups.all : groups.all[i].node.name = "+"
  /\ typed[1].info.type.args[1] = tNumber

====
